---- MODULE Spec2Model ----
(***************************************************************************)
(* Verification model of the DuckDB lakehouse backend of sveltia-cms:      *)
(* engine lifecycle (init.js), credential / presigned-URL cache            *)
(* (credentials.js), entry and asset stores (queries/entries.js,           *)
(* queries/assets.js) and the commit pipeline (commits.js).                *)
(*                                                                         *)
(* JavaScript runs one callback at a time: every action below is the code  *)
(* that runs between two awaits of one async function.  Identifiers (engine*)
(* instances, workers, connections) are positive numbers, 0 stands for     *)
(* null.                                                                   *)
(***************************************************************************)
EXTENDS Integers, Sequences, FiniteSets, TLC

(***************************************************************************)
(* Bounds of the model.                                                    *)
(***************************************************************************)
NumProcs == 2
MaxCalls == 3
MaxTicks == 2

Procs == 1..NumProcs

REQUIRED_EXTENSIONS == <<"httpfs", "parquet", "iceberg", "spatial">>

\* Number of calls made so far (bounded by MaxCalls).
VARIABLE calls

\* init.js: the module-level singletons, each caller's position, and the
\* history of what was started and returned since the last close(), and how
\* the initialization that ended last ended.
VARIABLES
  db, conn, worker, isInitializing, extensionsLoaded,
  pc, op, nested, handle, extIdx, result,
  terminated, connDb, connClosed, nextInst, nextConn, extCount,
  crossed, epochStarts, epochReturns, epochConns, epochConnReturns, runReturns,
  lastInit

engineVars == <<db, conn, worker, isInitializing, extensionsLoaded,
                pc, op, nested, handle, extIdx, result,
                terminated, connDb, connClosed, nextInst, nextConn, extCount,
                crossed, epochStarts, epochReturns, epochConns, epochConnReturns,
                runReturns, lastInit>>

\* credentials.js: proxy configuration, session token, URL cache, the clock,
\* and the signing calls in flight.
VARIABLES
  proxyUrl, provider, sessionToken, cacheUrls, cacheExpiry, now,
  cpc, creq, outcome, fetchCount, authFailed

credVars == <<proxyUrl, provider, sessionToken, cacheUrls, cacheExpiry, now,
              cpc, creq, outcome, fetchCount, authFailed>>

\* repository.js: the repository object.
VARIABLE repository

\* The local database: which tables exist and under which schema.
VARIABLES entriesTable, assetsSchema

tableVars == <<entriesTable, assetsSchema>>

\* queries/entries.js: the rows of cms.entries, how the last store call
\* ended, and the entry that was upserted into an empty table and has not
\* been touched since.
VARIABLES entries, entryResult, tracked

entryVars == <<entries, entryResult, tracked>>

\* queries/assets.js: the rows of cms.assets and how the last call ended.
VARIABLES assets, assetResult

assetVars == <<assets, assetResult>>

\* commits.js: the commit in progress.
VARIABLES
  cmpc, batch, entryChanges, assetChanges, assetMode, cursor, applied, failedAt, puts,
  signs, upload, commitResult

commitVars == <<cmpc, batch, entryChanges, assetChanges, assetMode, cursor, applied, failedAt, puts,
                signs, upload, commitResult>>

\* Snapshot loads (loadEntriesFromParquet, loadAssetsFromParquet): each
\* caller's position and request, the snapshot last exported from each table,
\* and how each caller's last load ended.
VARIABLES lpc, lreq, exported, loadResult

loadVars == <<lpc, lreq, exported, loadResult>>

\* repository.js: the last full storage path asked for.
VARIABLE pathResult

storeVars == <<repository, tableVars, entryVars, assetVars, commitVars, loadVars, pathResult>>

vars == <<calls, engineVars, credVars, storeVars>>

(***************************************************************************)
(* Engine lifecycle: init.js                                               *)
(***************************************************************************)

NoResult == [kind |-> "none", val |-> 0]
Returned(v) == [kind |-> "value", val |-> v]
Thrown(e) == [kind |-> "error", val |-> e]

InitPcs == {"i_wait", "i_import", "i_worker", "i_inst"}
StartedPcs == {"i_import", "i_worker", "i_inst"}
ConnPcs == {"g_connect", "g_install", "g_load", "g_config"}
ClosePcs == {"c_conn", "c_db"}

nonEngineVars == <<credVars, storeVars>>

InitEngine ==
  /\ db = 0 /\ conn = 0 /\ worker = 0
  /\ isInitializing = FALSE /\ extensionsLoaded = FALSE
  /\ pc = [p \in Procs |-> "idle"]
  /\ op = [p \in Procs |-> "none"]
  /\ nested = [p \in Procs |-> FALSE]
  /\ handle = [p \in Procs |-> 0]
  /\ extIdx = [p \in Procs |-> 0]
  /\ result = [p \in Procs |-> NoResult]
  /\ terminated = {} /\ connDb = <<>> /\ connClosed = {}
  /\ nextInst = 1 /\ nextConn = 1
  /\ extCount = [k \in 1..Len(REQUIRED_EXTENSIONS) |-> 0]
  /\ crossed = [p \in Procs |-> FALSE]
  /\ epochStarts = 0 /\ epochReturns = {}
  /\ epochConns = {} /\ epochConnReturns = {} /\ runReturns = {}
  /\ lastInit = NoResult

\* isDuckDBReady / hasActiveConnection
isDuckDBReady == db # 0 /\ ~isInitializing
hasActiveConnection == conn # 0

\* `if (db !== null) return db` at the top of initDuckDB
HasInstance == db # 0

\* `if (isInitializing)`: another initialization is in flight
MustWait_NoGuard == FALSE
MustWait == isInitializing

\* `if (conn !== null) return conn` in getConnection
HasConnection == conn # 0

\* Bookkeeping of what init() handed to its caller (p's call ends here unless
\* it is nested in getConnection).
RecordInitReturn(p, v) ==
  /\ epochReturns' = IF crossed[p] THEN epochReturns ELSE epochReturns \cup {v}
  /\ runReturns' = IF crossed[p] THEN runReturns ELSE runReturns \cup {v}

\* The synchronous part of getConnection after `await initDuckDB()`:
\* lines 363-377, up to the call of db.connect().
ConnCheck(p) ==
  IF HasConnection
    THEN /\ pc' = [pc EXCEPT ![p] = "idle"]
         /\ result' = [result EXCEPT ![p] = Returned(conn)]
         /\ epochConnReturns' =
              IF crossed[p] THEN epochConnReturns ELSE epochConnReturns \cup {conn}
         /\ handle' = [handle EXCEPT ![p] = 0]
    ELSE IF db = 0
      THEN /\ pc' = [pc EXCEPT ![p] = "idle"]
           /\ result' = [result EXCEPT ![p] = Thrown("NotInitialized")]
           /\ UNCHANGED <<epochConnReturns, handle>>
      ELSE /\ pc' = [pc EXCEPT ![p] = "g_connect"]
           /\ handle' = [handle EXCEPT ![p] = db]
           /\ UNCHANGED <<result, epochConnReturns>>

\* initDuckDB lines 220-246, entered directly (n = FALSE) or from
\* getConnection line 360 (n = TRUE).
InitEnter(p, n) ==
  /\ nested' = [nested EXCEPT ![p] = n]
  /\ crossed' = [crossed EXCEPT ![p] = FALSE]
  /\ IF HasInstance
       THEN /\ pc' = [pc EXCEPT ![p] = "idle"]
            /\ result' = [result EXCEPT ![p] = Returned(db)]
            /\ RecordInitReturn(p, db)
            /\ UNCHANGED <<isInitializing, epochStarts>>
       ELSE IF MustWait
         THEN /\ pc' = [pc EXCEPT ![p] = "i_wait"]
              /\ result' = [result EXCEPT ![p] = NoResult]
              /\ UNCHANGED <<isInitializing, epochStarts, epochReturns, runReturns>>
         ELSE /\ isInitializing' = TRUE
              /\ pc' = [pc EXCEPT ![p] = "i_import"]
              /\ result' = [result EXCEPT ![p] = NoResult]
              /\ epochStarts' = epochStarts + 1
              /\ UNCHANGED <<epochReturns, runReturns>>

initDuckDB(p) ==
  /\ pc[p] = "idle"
  /\ UNCHANGED nonEngineVars
  /\ calls < MaxCalls
  /\ calls' = calls + 1
  /\ op' = [op EXCEPT ![p] = "init"]
  /\ InitEnter(p, FALSE)
  /\ UNCHANGED <<db, conn, worker, extensionsLoaded, handle, extIdx, terminated,
                 connDb, connClosed, nextInst, nextConn, lastInit, extCount, epochConns,
                 epochConnReturns>>

\* The catch and finally blocks of initDuckDB, lines 283-296.
InitFail_KeepsWorker(p) ==
  /\ db' = 0
  /\ isInitializing' = FALSE
  /\ pc' = [pc EXCEPT ![p] = "idle"]
  /\ result' = [result EXCEPT ![p] = Thrown("InitFailed")]
  /\ runReturns' = {}
  /\ lastInit' = Thrown("InitFailed")
  /\ UNCHANGED <<calls, op, conn, worker, terminated, extensionsLoaded, handle, extIdx,
                 connDb, connClosed, nextInst, nextConn, extCount, nested, crossed,
                 epochStarts, epochReturns, epochConns, epochConnReturns>>
InitFail(p) ==
  /\ terminated' = IF worker # 0 THEN terminated \cup {worker} ELSE terminated
  /\ worker' = 0
  /\ db' = 0
  /\ isInitializing' = FALSE
  /\ pc' = [pc EXCEPT ![p] = "idle"]
  /\ result' = [result EXCEPT ![p] = Thrown("InitFailed")]
  /\ runReturns' = {}
  /\ lastInit' = Thrown("InitFailed")
  /\ UNCHANGED <<calls, op, conn, extensionsLoaded, handle, extIdx, connDb, connClosed,
                 nextInst, nextConn, extCount, nested, crossed, epochStarts,
                 epochReturns, epochConns, epochConnReturns>>

\* `while (isInitializing)`, line 233: whether the wait loop is left.
WaitOver_Unchecked == TRUE
WaitOver == ~isInitializing

\* One poll of the wait loop that leaves it, lines 233-242.
InitPoll(p) ==
  /\ pc[p] = "i_wait"
  /\ UNCHANGED nonEngineVars
  /\ WaitOver
  /\ IF db # 0
       THEN IF nested[p]
         THEN /\ ConnCheck(p)
              /\ RecordInitReturn(p, db)
         ELSE /\ pc' = [pc EXCEPT ![p] = "idle"]
              /\ result' = [result EXCEPT ![p] = Returned(db)]
              /\ RecordInitReturn(p, db)
              /\ UNCHANGED <<handle, epochConnReturns>>
       ELSE /\ pc' = [pc EXCEPT ![p] = "idle"]
            /\ result' = [result EXCEPT ![p] = Thrown("InitFailedWhileWaiting")]
            /\ UNCHANGED <<handle, epochConnReturns, epochReturns, runReturns>>
  /\ UNCHANGED <<calls, op, db, conn, worker, isInitializing, extensionsLoaded, nested, extIdx,
                 terminated, connDb, connClosed, nextInst, nextConn, lastInit, extCount, crossed,
                 epochStarts, epochConns>>

\* import('@duckdb/duckdb-wasm') and selectBundle settle, lines 251-264.
InitBundleDone(p, ok) ==
  /\ pc[p] = "i_import"
  /\ UNCHANGED nonEngineVars
  /\ IF ok
       THEN /\ pc' = [pc EXCEPT ![p] = "i_worker"]
            /\ UNCHANGED <<calls, op, db, conn, worker, isInitializing, extensionsLoaded, nested,
                           handle, extIdx, result, terminated, connDb, connClosed,
                           nextInst, nextConn, lastInit, extCount, crossed, epochStarts,
                           epochReturns, epochConns, epochConnReturns, runReturns>>
       ELSE InitFail(p)

\* createWorkerFromUrl settles; on success the worker is stored and the engine
\* is constructed on it and instantiate() is called, lines 264-278.
InitWorkerDone(p, how) ==
  /\ pc[p] = "i_worker"
  /\ UNCHANGED nonEngineVars
  /\ IF how = "ok"
       THEN /\ worker' = nextInst
            /\ db' = nextInst
            /\ nextInst' = nextInst + 1
            /\ pc' = [pc EXCEPT ![p] = "i_inst"]
            /\ UNCHANGED <<calls, op, conn, isInitializing, extensionsLoaded, nested, handle,
                           extIdx, result, terminated, connDb, connClosed, nextConn, lastInit,
                           extCount, crossed, epochStarts, epochReturns, epochConns,
                           epochConnReturns, runReturns>>
       ELSE IF how = "constructFailed"
         THEN \* the worker was stored at line 264 before the constructor threw
                /\ nextInst' = nextInst + 1
              /\ terminated' = terminated \cup {nextInst}
              /\ worker' = 0
              /\ db' = 0
              /\ isInitializing' = FALSE
              /\ pc' = [pc EXCEPT ![p] = "idle"]
              /\ result' = [result EXCEPT ![p] = Thrown("InitFailed")]
              /\ runReturns' = {}
              /\ lastInit' = Thrown("InitFailed")
              /\ UNCHANGED <<calls, op, conn, extensionsLoaded, handle, extIdx, connDb, connClosed,
                             nextConn, extCount, nested, crossed, epochStarts,
                             epochReturns, epochConns, epochConnReturns>>
         ELSE InitFail(p)

\* db.instantiate settles, lines 278-296.  `return db` reads the module
\* variable at that moment.
InitInstantiateDone(p, ok) ==
  /\ pc[p] = "i_inst"
  /\ UNCHANGED nonEngineVars
  /\ IF ok
       THEN /\ isInitializing' = FALSE
            /\ lastInit' = Returned(db)
            /\ IF nested[p]
                 THEN /\ ConnCheck(p)
                      /\ RecordInitReturn(p, db)
                 ELSE /\ pc' = [pc EXCEPT ![p] = "idle"]
                      /\ result' = [result EXCEPT ![p] = Returned(db)]
                      /\ RecordInitReturn(p, db)
                      /\ UNCHANGED <<handle, epochConnReturns>>
            /\ UNCHANGED <<calls, op, db, conn, worker, extensionsLoaded, nested, extIdx,
                           terminated, connDb, connClosed, nextInst, nextConn, extCount,
                           crossed, epochStarts, epochConns>>
       ELSE InitFail(p)

\* getConnection lines 357-377.
getConnection(p) ==
  /\ pc[p] = "idle"
  /\ UNCHANGED nonEngineVars
  /\ calls < MaxCalls
  /\ calls' = calls + 1
  /\ op' = [op EXCEPT ![p] = "getConnection"]
  /\ IF db = 0
       THEN /\ InitEnter(p, TRUE)
            /\ UNCHANGED <<handle, epochConnReturns>>
       ELSE /\ ConnCheck(p)
            /\ nested' = [nested EXCEPT ![p] = FALSE]
            /\ crossed' = [crossed EXCEPT ![p] = FALSE]
            /\ UNCHANGED <<isInitializing, epochStarts, epochReturns, runReturns>>
  /\ UNCHANGED <<db, conn, worker, extensionsLoaded, extIdx, terminated, connDb,
                 connClosed, nextInst, nextConn, lastInit, extCount, epochConns>>

\* The catch block of getConnection, lines 388-393.
ConnFail_KeepsConn(p) ==
  /\ pc' = [pc EXCEPT ![p] = "idle"]
  /\ result' = [result EXCEPT ![p] = Thrown("ConnectionFailed")]
  /\ UNCHANGED <<calls, op, db, conn, worker, isInitializing, extensionsLoaded, nested, handle,
                 extIdx, terminated, connDb, connClosed, nextInst, nextConn, lastInit, extCount,
                 crossed, epochStarts, epochReturns, epochConns, epochConnReturns,
                 runReturns>>
ConnFail(p) ==
  /\ conn' = 0
  /\ pc' = [pc EXCEPT ![p] = "idle"]
  /\ result' = [result EXCEPT ![p] = Thrown("ConnectionFailed")]
  /\ UNCHANGED <<calls, op, db, worker, isInitializing, extensionsLoaded, nested, handle, extIdx,
                 terminated, connDb, connClosed, nextInst, nextConn, lastInit, extCount,
                 crossed, epochStarts, epochReturns, epochConns, epochConnReturns,
                 runReturns>>

\* `if (extensionsLoaded) return` at the top of loadExtensions, line 307.
SkipExtensions == extensionsLoaded

\* db.connect() settles: the connection is stored and loadExtensions(conn)
\* runs up to its first query, lines 377-380 and 306-319.
ConnectDone(p, ok) ==
  /\ pc[p] = "g_connect"
  /\ UNCHANGED nonEngineVars
  /\ IF ok
       THEN /\ conn' = nextConn
            /\ nextConn' = nextConn + 1
            /\ connDb' = Append(connDb, handle[p])
            /\ epochConns' = IF crossed[p] THEN epochConns ELSE epochConns \cup {nextConn}
            /\ handle' = [handle EXCEPT ![p] = nextConn]
            /\ IF SkipExtensions
                 THEN /\ pc' = [pc EXCEPT ![p] = "g_config"]
                      /\ UNCHANGED <<extIdx, extCount>>
                 ELSE /\ pc' = [pc EXCEPT ![p] = "g_install"]
                      /\ extIdx' = [extIdx EXCEPT ![p] = 1]
                      /\ extCount' = IF crossed[p] THEN extCount
                                      ELSE [extCount EXCEPT ![1] = @ + 1]
            /\ UNCHANGED <<calls, op, db, worker, isInitializing, extensionsLoaded, nested, result,
                           terminated, connClosed, nextInst, crossed, epochStarts,
                           epochReturns, epochConnReturns, runReturns, lastInit>>
       ELSE ConnFail(p)

\* `INSTALL <extension>` settles, lines 319-321.
InstallDone(p, ok) ==
  /\ pc[p] = "g_install"
  /\ UNCHANGED nonEngineVars
  /\ IF ok
       THEN /\ pc' = [pc EXCEPT ![p] = "g_load"]
            /\ UNCHANGED <<calls, op, db, conn, worker, isInitializing, extensionsLoaded, nested,
                           handle, extIdx, result, terminated, connDb, connClosed,
                           nextInst, nextConn, lastInit, extCount, crossed, epochStarts,
                           epochReturns, epochConns, epochConnReturns, runReturns>>
       ELSE ConnFail(p)

\* `LOAD <extension>` settles: next extension, or the flag is set and
\* configureForPresignedURLs issues its query, lines 321-331 and 340-345.
LoadDone(p, ok) ==
  /\ pc[p] = "g_load"
  /\ UNCHANGED nonEngineVars
  /\ IF ok
       THEN /\ IF extIdx[p] < Len(REQUIRED_EXTENSIONS)
                 THEN /\ extIdx' = [extIdx EXCEPT ![p] = @ + 1]
                      /\ extCount' = IF crossed[p] THEN extCount
                                      ELSE [extCount EXCEPT ![extIdx[p] + 1] = @ + 1]
                      /\ pc' = [pc EXCEPT ![p] = "g_install"]
                      /\ UNCHANGED extensionsLoaded
                 ELSE /\ extensionsLoaded' = TRUE
                      /\ pc' = [pc EXCEPT ![p] = "g_config"]
                      /\ UNCHANGED <<extIdx, extCount>>
            /\ UNCHANGED <<calls, op, db, conn, worker, isInitializing, nested, handle, result,
                           terminated, connDb, connClosed, nextInst, nextConn, lastInit, crossed,
                           epochStarts, epochReturns, epochConns, epochConnReturns,
                           runReturns>>
       ELSE ConnFail(p)

\* `SET reliable_head_requests = false` settles; `return conn` reads the module
\* variable at that moment, lines 383-387.
ConfigDone(p, ok) ==
  /\ pc[p] = "g_config"
  /\ UNCHANGED nonEngineVars
  /\ IF ok
       THEN /\ pc' = [pc EXCEPT ![p] = "idle"]
            /\ result' = [result EXCEPT ![p] = Returned(conn)]
            /\ epochConnReturns' =
                 IF crossed[p] THEN epochConnReturns ELSE epochConnReturns \cup {conn}
            /\ UNCHANGED <<calls, op, db, conn, worker, isInitializing, extensionsLoaded, nested,
                           handle, extIdx, terminated, connDb, connClosed, nextInst,
                           nextConn, lastInit, extCount, crossed, epochStarts, epochReturns,
                           epochConns, runReturns>>
       ELSE ConnFail(p)

\* Every call in flight when close() runs is no longer a call "with no close
\* in between"; the per-epoch bookkeeping starts afresh.
CloseBookkeeping(p) ==
  /\ crossed' = [q \in Procs |-> IF q = p THEN FALSE ELSE pc[q] # "idle"]
  /\ epochStarts' = 0
  /\ epochReturns' = {}
  /\ epochConns' = {}
  /\ epochConnReturns' = {}
  /\ runReturns' = {}
  /\ extCount' = [k \in 1..Len(REQUIRED_EXTENSIONS) |-> 0]

\* closeDuckDB lines 428-443: worker.terminate(), reset of the flag, return.
CloseTail(p) ==
  /\ terminated' = IF worker # 0 THEN terminated \cup {worker} ELSE terminated
  /\ worker' = 0
  /\ extensionsLoaded' = FALSE
  /\ pc' = [pc EXCEPT ![p] = "idle"]
  /\ result' = [result EXCEPT ![p] = Returned(0)]

\* closeDuckDB lines 417-426 up to `await db.terminate()`.
CloseFromDb_SkipsDb(p) == CloseTail(p)
CloseFromDb(p) ==
  IF db # 0
    THEN /\ pc' = [pc EXCEPT ![p] = "c_db"]
         /\ UNCHANGED <<worker, extensionsLoaded, result, terminated>>
    ELSE CloseTail(p)

\* closeDuckDB lines 401-407.
closeDuckDB(p) ==
  /\ pc[p] = "idle"
  /\ UNCHANGED nonEngineVars
  /\ calls < MaxCalls
  /\ calls' = calls + 1
  /\ op' = [op EXCEPT ![p] = "close"]
  /\ CloseBookkeeping(p)
  /\ IF conn # 0
       THEN /\ pc' = [pc EXCEPT ![p] = "c_conn"]
            /\ handle' = [handle EXCEPT ![p] = conn]
            /\ UNCHANGED <<worker, extensionsLoaded, result, terminated>>
       ELSE /\ CloseFromDb(p)
            /\ UNCHANGED handle
  /\ UNCHANGED <<db, conn, isInitializing, nested, extIdx, connDb, connClosed,
                 nextInst, nextConn, lastInit>>

\* conn.close() settles (resolved or rejected), lines 407-417.
CloseConnDone(p, ok) ==
  /\ pc[p] = "c_conn"
  /\ UNCHANGED nonEngineVars
  /\ CloseBookkeeping(p)
  /\ connClosed' = IF ok THEN connClosed \cup {handle[p]} ELSE connClosed
  /\ conn' = 0
  /\ CloseFromDb(p)
  /\ UNCHANGED <<calls, op, db, isInitializing, nested, handle, extIdx, connDb, nextInst, nextConn, lastInit>>

\* db.terminate() settles (resolved or rejected), lines 419-443.
CloseDbDone(p, ok) ==
  /\ pc[p] = "c_db"
  /\ UNCHANGED nonEngineVars
  /\ CloseBookkeeping(p)
  /\ db' = 0
  /\ CloseTail(p)
  /\ UNCHANGED <<calls, op, conn, isInitializing, nested, handle, extIdx, connDb, connClosed,
                 nextInst, nextConn, lastInit>>

NextEngine ==
  \E p \in Procs :
    \/ initDuckDB(p)
    \/ InitPoll(p)
    \/ \E ok \in BOOLEAN : InitBundleDone(p, ok)
    \/ \E how \in {"ok", "fetchFailed", "constructFailed"} : InitWorkerDone(p, how)
    \/ \E ok \in BOOLEAN : InitInstantiateDone(p, ok)
    \/ getConnection(p)
    \/ \E ok \in BOOLEAN : ConnectDone(p, ok)
    \/ \E ok \in BOOLEAN : InstallDone(p, ok)
    \/ \E ok \in BOOLEAN : LoadDone(p, ok)
    \/ \E ok \in BOOLEAN : ConfigDone(p, ok)
    \/ closeDuckDB(p)
    \/ \E ok \in BOOLEAN : CloseConnDone(p, ok)
    \/ \E ok \in BOOLEAN : CloseDbDone(p, ok)

(***************************************************************************)
(* Credential cache: credentials.js                                        *)
(***************************************************************************)

REFRESH_BUFFER_MS == 60 * 1000
DEFAULT_PRESIGN_EXPIRY == 900

\* The clock advances in steps of five refresh buffers (300 s).
TickMs == 5 * REFRESH_BUFFER_MS

\* Object paths ("" is the empty string, an invalid path), operations, and the
\* lifetimes (seconds) the signing service may grant.
Paths == {"p", "q"}
PathArgs == Paths \cup {""}
Operations == {"GET", "PUT", "DELETE"}
ExpiresInChoices == {DEFAULT_PRESIGN_EXPIRY, DEFAULT_PRESIGN_EXPIRY \div 3}
\* 0 stands for a fetch() that rejects (network error).
Statuses == {200, 401, 403, 500, 0}
\* Only a successful answer carries a lifetime.
GrantedFor(status) == IF status = 200 THEN ExpiresInChoices ELSE {0}

\* A signed URL: what it signs and the instant at which it stops working.
SignedUrl(path, operation, expiresIn) ==
  [path |-> path, operation |-> operation, expiresAt |-> now + expiresIn * 1000]

\* `undefined` where a URL is expected.
NoUrl == [path |-> "", operation |-> "", expiresAt |-> 0]

EmptyMap == [k \in {} |-> NoUrl]

\* { ...a, ...b }
Spread(a, b) ==
  [k \in DOMAIN a \cup DOMAIN b |-> IF k \in DOMAIN b THEN b[k] ELSE a[k]]

SeqRange(sq) == {sq[i] : i \in DOMAIN sq}

\* The arrays passed to fetchPresignedUrls: one array for every set of path
\* arguments, plus one with a repeated path.
ArrayOf(S) == CHOOSE sq \in [1..Cardinality(S) -> S] : SeqRange(sq) = S
PathArrays == {ArrayOf(S) : S \in SUBSET PathArgs} \cup {<<"p", "p">>}

NoRequest ==
  [fn |-> "none", operation |-> "", path |-> "", paths |-> <<>>, toFetch |-> <<>>]

\* How the most recent call or response ended: what was asked, the
\* settled value or error ("pending" while the request is in flight), the HTTP
\* status received, whether the value came out of the cache, and the number
\* of cached URLs an authentication failure wiped.
Outcome(req, kind, val, status, cached, wiped) ==
  [req |-> req, kind |-> kind, val |-> val, status |-> status,
   cached |-> cached, wiped |-> wiped]

SyncOutcome(fn, kind, val) ==
  Outcome([NoRequest EXCEPT !.fn = fn], kind, val, 0, FALSE, 0)

InitCred ==
  /\ proxyUrl = "" /\ provider = "" /\ sessionToken = ""
  /\ cacheUrls = EmptyMap /\ cacheExpiry = 0
  /\ now = 0
  /\ cpc = [p \in Procs |-> "idle"]
  /\ creq = [p \in Procs |-> NoRequest]
  /\ outcome = SyncOutcome("none", "none", "")
  /\ fetchCount = 0
  /\ authFailed = FALSE

nonCredVars == <<engineVars, storeVars>>

\* Date.now() moves on.
Tick ==
  /\ now < MaxTicks * TickMs
  /\ now' = now + TickMs
  /\ UNCHANGED <<proxyUrl, provider, sessionToken, cacheUrls, cacheExpiry,
                 cpc, creq, outcome, fetchCount, authFailed, calls>>
  /\ UNCHANGED nonCredVars

\* configureProxy, lines 71-82.
configureProxy(url, prov) ==
  /\ IF url = ""
       THEN /\ outcome' = SyncOutcome("configureProxy", "error", "ProxyUrlRequired")
            /\ UNCHANGED <<proxyUrl, provider>>
       ELSE IF prov = ""
         THEN /\ outcome' = SyncOutcome("configureProxy", "error", "ProviderRequired")
              /\ UNCHANGED <<proxyUrl, provider>>
         ELSE /\ proxyUrl' = url
              /\ provider' = prov
              /\ outcome' = SyncOutcome("configureProxy", "value", "")
  /\ UNCHANGED <<sessionToken, cacheUrls, cacheExpiry, now, cpc, creq, fetchCount,
                 authFailed, calls>>
  /\ UNCHANGED nonCredVars

\* setSessionToken, lines 89-95.
setSessionToken(token) ==
  /\ IF token = ""
       THEN /\ outcome' = SyncOutcome("setSessionToken", "error", "TokenRequired")
            /\ UNCHANGED <<sessionToken, authFailed>>
       ELSE /\ sessionToken' = token
            /\ authFailed' = FALSE
            /\ outcome' = SyncOutcome("setSessionToken", "value", "")
  /\ UNCHANGED <<proxyUrl, provider, cacheUrls, cacheExpiry, now, cpc, creq,
                 fetchCount, calls>>
  /\ UNCHANGED nonCredVars

\* The three assignments of clearCredentials, lines 102-104.
ClearEffect_KeepsCache ==
  /\ sessionToken' = ""
  /\ UNCHANGED <<cacheUrls, cacheExpiry>>
ClearEffect ==
  /\ sessionToken' = ""
  /\ cacheUrls' = EmptyMap
  /\ cacheExpiry' = 0

\* clearCredentials called by the application (sign-out), lines 101-105.
clearCredentials ==
  /\ ClearEffect
  /\ outcome' = Outcome([NoRequest EXCEPT !.fn = "clearCredentials"], "value", "", 0,
                        FALSE, Cardinality(DOMAIN cacheUrls))
  /\ UNCHANGED <<proxyUrl, provider, now, cpc, creq, fetchCount, authFailed, calls>>
  /\ UNCHANGED nonCredVars

\* isCacheValid, lines 111-114.
isCacheValid == cacheExpiry > now + REFRESH_BUFFER_MS

\* updateCache, lines 121-125.
updateCache(urls, expiresIn) ==
  /\ cacheUrls' = Spread(cacheUrls, urls)
  /\ cacheExpiry' = now + expiresIn * 1000

\* getCacheState, lines 263-270 (expiresIn in whole seconds).
getCacheState ==
  [size |-> Cardinality(DOMAIN cacheUrls),
   expiry |-> cacheExpiry,
   expiresIn |-> IF cacheExpiry - now > 0 THEN (cacheExpiry - now) \div 1000 ELSE 0]

\* `operation === 'GET'`: the only operation whose URLs are looked up in and
\* written to the cache, lines 196 and 209.
Cacheable_Any(operation) == TRUE
Cacheable(operation) == operation = "GET"

\* `response.status === 401 || response.status === 403`, line 158.
IsAuthFailure(status) == status \in {401, 403}

\* The checks of proxyRequest before fetch(), lines 135-141: the error it
\* throws, or "" when the request goes out.
ProxyPrecheck ==
  IF proxyUrl = "" THEN "NotConfigured"
  ELSE IF sessionToken = "" THEN "NotAuthenticated"
  ELSE ""

\* A call by p ends without a request or goes out to the signing service.
EndCall(p, req, kind, val, cached) ==
  /\ outcome' = Outcome(req, kind, val, 0, cached, 0)
  /\ UNCHANGED <<cpc, creq, fetchCount>>

SendRequest(p, req, state) ==
  /\ cpc' = [cpc EXCEPT ![p] = state]
  /\ creq' = [creq EXCEPT ![p] = req]
  /\ outcome' = Outcome(req, "pending", "", 0, FALSE, 0)
  /\ fetchCount' = fetchCount + 1

\* getPresignedUrl up to `await fetch`, lines 186-206 and 134-153.
getPresignedUrl(p, path, operation) ==
  /\ cpc[p] = "idle"
  /\ calls < MaxCalls
  /\ calls' = calls + 1
  /\ LET req == [NoRequest EXCEPT !.fn = "getPresignedUrl", !.operation = operation,
                                  !.path = path]
     IN IF path = ""
          THEN EndCall(p, req, "error", "PathRequired", FALSE)
          ELSE IF Cacheable(operation) /\ isCacheValid /\ path \in DOMAIN cacheUrls
            THEN EndCall(p, req, "value", cacheUrls[path], TRUE)
            ELSE IF ProxyPrecheck # ""
              THEN EndCall(p, req, "error", ProxyPrecheck, FALSE)
              ELSE SendRequest(p, req, "presign")
  /\ authFailed' = FALSE
  /\ UNCHANGED <<proxyUrl, provider, sessionToken, cacheUrls, cacheExpiry, now>>
  /\ UNCHANGED nonCredVars

\* The error paths of proxyRequest after fetch() settled, lines 155-174.
ProxyFailure(p, status) ==
  /\ IF IsAuthFailure(status)
       THEN /\ ClearEffect
            /\ authFailed' = TRUE
            /\ outcome' = Outcome(creq[p], "error", "AuthenticationFailed", status,
                                  FALSE, Cardinality(DOMAIN cacheUrls))
       ELSE /\ outcome' = Outcome(creq[p], "error",
                                  IF status = 0 THEN "NetworkError" ELSE "RequestFailed",
                                  status, FALSE, 0)
            /\ UNCHANGED <<sessionToken, cacheUrls, cacheExpiry, authFailed>>
  /\ cpc' = [cpc EXCEPT ![p] = "idle"]
  /\ creq' = [creq EXCEPT ![p] = NoRequest]

\* The signing service answers a /presign request, lines 146-167 and 208-213.
PresignResponse(p, status, expiresIn) ==
  /\ cpc[p] = "presign"
  /\ IF status = 200
       THEN LET url == SignedUrl(creq[p].path, creq[p].operation, expiresIn) IN
            /\ IF Cacheable(creq[p].operation)
                 THEN updateCache([k \in {creq[p].path} |-> url], expiresIn)
                 ELSE UNCHANGED <<cacheUrls, cacheExpiry>>
            /\ outcome' = Outcome(creq[p], "value", url, status, FALSE, 0)
            /\ cpc' = [cpc EXCEPT ![p] = "idle"]
            /\ creq' = [creq EXCEPT ![p] = NoRequest]
            /\ UNCHANGED <<sessionToken, authFailed>>
       ELSE ProxyFailure(p, status)
  /\ UNCHANGED <<proxyUrl, provider, now, fetchCount, calls>>
  /\ UNCHANGED nonCredVars

\* paths.filter((p) => p && typeof p === 'string'), line 229.
ValidPaths(paths) == SelectSeq(paths, LAMBDA x : x # "")

\* The paths fetchPresignedUrls asks the service for, lines 236-238.
PathsToFetch(paths) ==
  IF isCacheValid
    THEN SelectSeq(ValidPaths(paths), LAMBDA x : x \notin DOMAIN cacheUrls)
    ELSE ValidPaths(paths)

\* Object.fromEntries(validPaths.map((p) => [p, cache.urls[p]])), for the
\* cache contents `urls`; a path without a cached URL maps to undefined.
FromCache(paths, urls) ==
  [k \in SeqRange(ValidPaths(paths)) |-> IF k \in DOMAIN urls THEN urls[k] ELSE NoUrl]

\* fetchPresignedUrls up to `await fetch`, lines 223-250.
fetchPresignedUrls(p, paths) ==
  /\ cpc[p] = "idle"
  /\ calls < MaxCalls
  /\ calls' = calls + 1
  /\ LET req == [NoRequest EXCEPT !.fn = "fetchPresignedUrls", !.operation = "GET",
                                  !.paths = paths, !.toFetch = PathsToFetch(paths)]
     IN IF Len(paths) = 0
          THEN EndCall(p, req, "error", "PathsRequired", FALSE)
          ELSE IF Len(ValidPaths(paths)) = 0
            THEN EndCall(p, req, "error", "NoValidPaths", FALSE)
            ELSE IF Len(PathsToFetch(paths)) = 0
              THEN EndCall(p, req, "value", FromCache(paths, cacheUrls), TRUE)
              ELSE IF ProxyPrecheck # ""
                THEN EndCall(p, req, "error", ProxyPrecheck, FALSE)
                ELSE SendRequest(p, req, "batch")
  /\ authFailed' = FALSE
  /\ UNCHANGED <<proxyUrl, provider, sessionToken, cacheUrls, cacheExpiry, now>>
  /\ UNCHANGED nonCredVars

\* The signing service answers a /presign-batch request with a URL for every
\* requested path, lines 247-256.
BatchResponse(p, status, expiresIn) ==
  /\ cpc[p] = "batch"
  /\ IF status = 200
       THEN LET urls == [k \in SeqRange(creq[p].toFetch) |-> SignedUrl(k, "GET", expiresIn)]
            IN /\ updateCache(urls, expiresIn)
               /\ outcome' = Outcome(creq[p], "value",
                                     FromCache(creq[p].paths, Spread(cacheUrls, urls)),
                                     status, FALSE, 0)
               /\ cpc' = [cpc EXCEPT ![p] = "idle"]
               /\ creq' = [creq EXCEPT ![p] = NoRequest]
               /\ UNCHANGED <<sessionToken, authFailed>>
       ELSE ProxyFailure(p, status)
  /\ UNCHANGED <<proxyUrl, provider, now, fetchCount, calls>>
  /\ UNCHANGED nonCredVars

NextCred ==
  \/ Tick
  \/ \E url \in {"", "https://proxy"}, prov \in {"", "s3"} : configureProxy(url, prov)
  \/ \E token \in {"", "jwt"} : setSessionToken(token)
  \/ clearCredentials
  \/ \E p \in Procs, path \in PathArgs, operation \in Operations :
       getPresignedUrl(p, path, operation)
  \/ \E p \in Procs, status \in Statuses :
       \E expiresIn \in GrantedFor(status) : PresignResponse(p, status, expiresIn)
  \/ \E p \in Procs, paths \in PathArrays : fetchPresignedUrls(p, paths)
  \/ \E p \in Procs, status \in Statuses :
       \E expiresIn \in GrantedFor(status) : BatchResponse(p, status, expiresIn)

(***************************************************************************)
(* Repository configuration: repository.js, index.js                       *)
(***************************************************************************)

\* Strings that the code takes apart or puts together are sequences of
\* tokens: "cms/data/" is <<"cms", "/", "data", "/">>, "a.md" is <<"a", ".md">>
\* and the id "post_en" is <<"post", "_", "en">>.  '' is << >>.
ASSET_MODES == {"inline", "external"}

\* The repository object as declared, lines 15-37 of repository.js.
DefaultRepository ==
  [assetMode |-> "inline", bucket |-> <<>>, dataPath |-> <<>>, pathPrefix |-> <<>>]

\* parseStorageConfig, repository.js lines 98-109: storage.data_path || 'cms/data/'.
parseStorageConfig(storage) ==
  [bucket |-> storage.bucket,
   dataPath |-> IF storage.data_path = <<>> THEN <<"cms", "/", "data", "/">>
                ELSE storage.data_path,
   pathPrefix |-> storage.path_prefix]

\* The backend configurations init() is given.
BackendConfigs ==
  {[asset_mode |-> m,
    storage |-> [bucket |-> <<"my-bucket">>, data_path |-> <<>>, path_prefix |-> <<>>]] :
     m \in ASSET_MODES \cup {"bogus"}}

InitRepository == repository = DefaultRepository

\* init, index.js lines 38-136: validates the configuration and assigns it to
\* the repository object; a missing bucket or an invalid asset mode leaves it
\* untouched.
init(backend) ==
  /\ IF parseStorageConfig(backend.storage).bucket # <<>> /\ backend.asset_mode \in ASSET_MODES
       THEN repository' = [assetMode |-> backend.asset_mode,
                           bucket |-> parseStorageConfig(backend.storage).bucket,
                           dataPath |-> parseStorageConfig(backend.storage).dataPath,
                           pathPrefix |-> parseStorageConfig(backend.storage).pathPrefix]
       ELSE UNCHANGED repository
  /\ UNCHANGED <<tableVars, entryVars, assetVars, commitVars, calls>>
  /\ UNCHANGED <<engineVars, credVars, loadVars, pathResult>>

\* str.replace(/\/+/g, '/')
RECURSIVE CollapseSlashes(_)
CollapseSlashes(s) ==
  IF Len(s) <= 1 THEN s
  ELSE IF s[1] = "/" /\ s[2] = "/" THEN CollapseSlashes(Tail(s))
  ELSE <<s[1]>> \o CollapseSlashes(Tail(s))

\* parts.join('/')
RECURSIVE JoinSlash(_)
JoinSlash(parts) ==
  IF Len(parts) = 0 THEN <<>>
  ELSE IF Len(parts) = 1 THEN parts[1]
  ELSE parts[1] \o <<"/">> \o JoinSlash(Tail(parts))

\* getFullStoragePath, repository.js lines 73-79.
getFullStoragePath_WithBucket(relativePath) ==
  CollapseSlashes(JoinSlash(SelectSeq(
    <<repository.bucket, repository.pathPrefix, repository.dataPath, relativePath>>,
    LAMBDA part : part # <<>>)))
getFullStoragePath(relativePath) ==
  CollapseSlashes(JoinSlash(SelectSeq(
    <<repository.pathPrefix, repository.dataPath, relativePath>>,
    LAMBDA part : part # <<>>)))

\* getDataPaths, files.js lines 48-55: the paths fetchFiles loads the
\* snapshots from, `${dataPath}entries.parquet` and `${dataPath}assets.parquet`.
getDataPaths ==
  [u \in {"entries", "assets"} |-> repository.dataPath \o <<u, ".parquet">>]

\* Storage configurations with and without leading, trailing and doubled
\* separators, and the relative paths asked for.
Buckets == {<<>>, <<"my-bucket">>, <<"my-bucket", "/">>}
PathPrefixes == {<<>>, <<"env">>, <<"/", "env", "/">>, <<"/", "/">>}
DataPaths == {<<>>, <<"cms", "/", "data">>, <<"/", "data", "/", "/">>}
RelativePaths == {<<>>, <<"entries.parquet">>, <<"/", "file.txt">>, <<"a", "/", "/", "b">>}
StorageConfigs ==
  {[asset_mode |-> "inline",
    storage |-> [bucket |-> b, data_path |-> d, path_prefix |-> x]] :
     b \in Buckets, d \in DataPaths, x \in PathPrefixes}

\* The last call of getFullStoragePath: the repository it read, its argument
\* and the path it returned.
NoPath == [config |-> DefaultRepository, relativePath |-> <<>>, path |-> <<>>, asked |-> FALSE]

InitPath == pathResult = NoPath

\* A caller asks for the full storage path of a relative path.
askFullStoragePath(relativePath) ==
  /\ pathResult' = [config |-> repository, relativePath |-> relativePath,
                    path |-> getFullStoragePath(relativePath), asked |-> TRUE]
  /\ UNCHANGED <<repository, tableVars, entryVars, assetVars, commitVars, loadVars, calls>>
  /\ UNCHANGED <<engineVars, credVars>>

NextPath ==
  \/ \E backend \in StorageConfigs : init(backend)
  \/ \E relativePath \in RelativePaths : askFullStoragePath(relativePath)

(***************************************************************************)
(* Table schemas: queries/schema.js, queries/assets.js                     *)
(***************************************************************************)

\* Which CREATE TABLE IF NOT EXISTS made cms.assets: none yet, the one of
\* schema.js (no kind and no storage_mode column, path UNIQUE) or the one of
\* assets.js (storage_mode, chk_storage).
AssetSchemas == {"none", "schema.js", "assets.js"}

InitTables == entriesTable = FALSE /\ assetsSchema = "none"

\* The effect of initializeSchema, schema.js lines 67-80.
SchemaEffect ==
  /\ entriesTable' = TRUE
  /\ assetsSchema' = IF assetsSchema = "none" THEN "schema.js" ELSE assetsSchema

\* initializeSchema called by the application (fetchFiles, files.js line 215).
initializeSchema ==
  /\ SchemaEffect
  /\ UNCHANGED <<repository, entryVars, assetVars, commitVars, calls>>
  /\ UNCHANGED <<engineVars, credVars, loadVars, pathResult>>

\* initializeAssetsTable, assets.js lines 277-318.
initializeAssetsTable ==
  /\ assetsSchema' = IF assetsSchema = "none" THEN "assets.js" ELSE assetsSchema
  /\ UNCHANGED <<entriesTable, repository, entryVars, assetVars, commitVars, calls>>
  /\ UNCHANGED <<engineVars, credVars, loadVars, pathResult>>

(***************************************************************************)
(* Entry store: queries/entries.js                                         *)
(***************************************************************************)

Locales == {"_default", "en", "fr"}
\* Object.entries(locales) enumerates the locales in this order.
LocaleOrder == <<"_default", "en", "fr">>

\* Entry ids; the second one itself ends in an underscore and two letters.
EntryIds == {<<"post">>, <<"post", "_", "en">>}

\* Structured content of a locale, in two versions; the second holds an
\* apostrophe.
Content(locale, version) ==
  <<locale, ":">> \o (IF version = 1 THEN <<"a">> ELSE <<"it", "'", "s">>)

\* An Entry whose locales are the set L.
MakeEntry(id, L, version, collectionName) ==
  [id |-> id, sha |-> "", slug |-> id, commitAuthor |-> "",
   locales |->
     [i \in 1..Len(SelectSeq(LocaleOrder, LAMBDA l : l \in L)) |->
        LET l == SelectSeq(LocaleOrder, LAMBDA x : x \in L)[i] IN
        [locale |-> l, slug |-> id,
         path |-> <<collectionName, "/">> \o id \o <<".md">>,
         content |-> Content(l, version)]]]

EntryInputs ==
  {MakeEntry(id, L, version, "posts") :
     id \in EntryIds, L \in (SUBSET Locales) \ {{}}, version \in {1, 2}}

NoEntry == [id |-> <<>>, sha |-> "", slug |-> <<>>, commitAuthor |-> "", locales |-> <<>>]

\* JSON.stringify(content) and JSON.parse(row.data).
JsonStringify(content) == <<"{">> \o content \o <<"}">>
JsonParse(text) == SubSeq(text, 2, Len(text) - 1)

\* dataJson.replace(/'/g, "''"), and the value the engine reads back from the
\* quoted literal.
RECURSIVE SqlEscape(_)
SqlEscape(s) ==
  IF s = <<>> THEN <<>>
  ELSE IF Head(s) = "'" THEN <<"'", "'">> \o SqlEscape(Tail(s))
  ELSE <<Head(s)>> \o SqlEscape(Tail(s))

RECURSIVE SqlLiteralValue(_)
SqlLiteralValue(s) ==
  IF s = <<>> THEN <<>>
  ELSE IF Len(s) >= 2 /\ s[1] = "'" /\ s[2] = "'"
    THEN <<"'">> \o SqlLiteralValue(Tail(Tail(s)))
  ELSE <<Head(s)>> \o SqlLiteralValue(Tail(s))

\* locale === '_default' ? id : `${id}_${locale}`, line 1197.
LocaleRowId_NoLocale(id, locale) == id
LocaleRowId(id, locale) == IF locale = "_default" THEN id ELSE id \o <<"_", locale>>

\* firstRow.id.replace(/_[a-z]{2}(-[A-Z]{2})?$/, ''), line 1011.
TwoLetterCodes == {"en", "fr", "en-US"}
BaseId(rowId) ==
  IF Len(rowId) >= 2 /\ rowId[Len(rowId) - 1] = "_" /\ rowId[Len(rowId)] \in TwoLetterCodes
    THEN SubSeq(rowId, 1, Len(rowId) - 2)
    ELSE rowId

\* path.replace(/\.[^.]+$/, ''), lines 1018 and commits.js 72, 246.
Extensions == {".md", ".txt", ".png"}
StripExtension(path) ==
  IF Len(path) >= 1 /\ path[Len(path)] \in Extensions
    THEN SubSeq(path, 1, Len(path) - 1)
    ELSE path

\* The row upsertEntry inserts for one locale, lines 1203-1218.
EntryRow(entry, loc, collectionName) ==
  LET rowSlug == IF loc.slug # <<>> THEN loc.slug ELSE entry.slug IN
  [id |-> LocaleRowId(entry.id, loc.locale),
   collection |-> collectionName,
   slug |-> rowSlug,
   locale |-> loc.locale,
   path |-> IF loc.path # <<>> THEN loc.path ELSE <<collectionName, "/">> \o rowSlug,
   data |-> SqlLiteralValue(SqlEscape(JsonStringify(loc.content))),
   status |-> "published",
   sha |-> entry.sha,
   updated_at |-> now,
   updated_by |-> entry.commitAuthor]

\* UNIQUE (collection, slug, locale), schema.js line 27.
UniqueConflict(rows, row) ==
  \E r \in rows : /\ r.id # row.id
                  /\ r.collection = row.collection /\ r.slug = row.slug
                  /\ r.locale = row.locale

\* Where a query of a store call fails: at no query, while the schema is
\* created, or at the DELETE or the INSERT of the at-th locale.
NoFailure == [at |-> 0, stage |-> "none"]
SchemaFailure == [at |-> 0, stage |-> "schema"]
FailurePoints(n) ==
  {NoFailure, SchemaFailure}
    \cup {[at |-> i, stage |-> s] : i \in 1..n, s \in {"delete", "insert"}}

\* The loop of upsertEntry from the i-th locale on, lines 1192-1219: the rows
\* afterwards and whether every query succeeded.
RECURSIVE UpsertRows(_, _, _, _, _)
UpsertRows(rows, entry, collectionName, failure, i) ==
  IF i > Len(entry.locales) THEN [rows |-> rows, ok |-> TRUE]
  ELSE LET row == EntryRow(entry, entry.locales[i], collectionName)
           kept == {r \in rows : r.id # row.id}
       IN IF failure.at = i /\ failure.stage = "delete"
            THEN [rows |-> rows, ok |-> FALSE]
          ELSE IF (failure.at = i /\ failure.stage = "insert") \/ UniqueConflict(kept, row)
            THEN [rows |-> kept, ok |-> FALSE]
          ELSE UpsertRows(kept \cup {row}, entry, collectionName, failure, i + 1)

\* ORDER BY id, locale: ids compare token by token.
TokenOrder == <<"_", "a", "b", "en", "fr", "post">>
TokenRank(t) == CHOOSE i \in 1..Len(TokenOrder) : TokenOrder[i] = t

RECURSIVE IdLess(_, _)
IdLess(a, b) ==
  IF a = <<>> THEN b # <<>>
  ELSE IF b = <<>> THEN FALSE
  ELSE IF Head(a) = Head(b) THEN IdLess(Tail(a), Tail(b))
  ELSE TokenRank(Head(a)) < TokenRank(Head(b))

RECURSIVE SortIds(_)
SortIds(ids) ==
  IF ids = {} THEN <<>>
  ELSE LET least == CHOOSE x \in ids : \A y \in ids \ {x} : IdLess(x, y)
       IN <<least>> \o SortIds(ids \ {least})

RECURSIVE SortLocaleRows(_)
SortLocaleRows(rows) ==
  IF rows = {} THEN <<>>
  ELSE LET first == CHOOSE r \in rows : \A o \in rows \ {r} :
                       TokenRank(IF r.locale = "_default" THEN "_" ELSE r.locale)
                         <= TokenRank(IF o.locale = "_default" THEN "_" ELSE o.locale)
       IN <<first>> \o SortLocaleRows(rows \ {first})

\* row.locale || '_default', line 1000.
RowLocale(row) == IF row.locale = "" THEN "_default" ELSE row.locale

\* mapRowsToEntry, lines 987-1036.
mapRowsToEntry(rows) ==
  LET firstRow == rows[1] IN
  [id |-> BaseId(firstRow.id),
   sha |-> firstRow.sha,
   slug |-> firstRow.slug,
   subPath |-> IF StripExtension(firstRow.path) # <<>>
                 THEN StripExtension(firstRow.path) ELSE firstRow.slug,
   locales |-> [l \in {RowLocale(rows[i]) : i \in DOMAIN rows} |->
                  LET row == rows[CHOOSE i \in DOMAIN rows :
                                    /\ RowLocale(rows[i]) = l
                                    /\ \A j \in DOMAIN rows : RowLocale(rows[j]) = l => j <= i]
                  IN [slug |-> row.slug, path |-> row.path, content |-> JsonParse(row.data)]],
   commitDate |-> firstRow.updated_at,
   commitAuthor |-> firstRow.updated_by]

\* The grouping of fetchAllEntries, lines 1055-1070: one group per row id,
\* in the order the ids first appear.
GroupByRowId(rows) ==
  LET ids == SortIds({r.id : r \in rows}) IN
  [g \in 1..Len(ids) |-> SortLocaleRows({r \in rows : r.id = ids[g]})]

EntryOutcome(fn, kind, val) == [fn |-> fn, kind |-> kind, val |-> val]

InitEntries ==
  /\ entries = {}
  /\ entryResult = EntryOutcome("none", "none", <<>>)
  /\ tracked = NoEntry

\* upsertEntry, lines 1178-1228: the schema is created if missing, then each
\* locale row is deleted and inserted again.
upsertEntry(entry, collectionName, failure) ==
  /\ calls < MaxCalls
  /\ calls' = calls + 1
  /\ IF failure = SchemaFailure
       THEN /\ entryResult' = EntryOutcome("upsertEntry", "error", <<"Failed to upsert entry">>)
            /\ tracked' = NoEntry
            /\ UNCHANGED <<entries, tableVars>>
       ELSE LET done == UpsertRows(entries, entry, collectionName, failure, 1) IN
            /\ SchemaEffect
            /\ entries' = done.rows
            /\ entryResult' =
                 EntryOutcome("upsertEntry", IF done.ok THEN "value" ELSE "error",
                              IF done.ok THEN <<>> ELSE <<"Failed to upsert entry">>)
            /\ tracked' = IF done.ok /\ entries = {} THEN entry ELSE NoEntry
  /\ UNCHANGED <<repository, assetVars, commitVars>>
  /\ UNCHANGED <<engineVars, credVars, loadVars, pathResult>>

\* deleteEntry, lines 1237-1251: DELETE FROM cms.entries WHERE id = ?
DeleteEntryRows(rows, id) == {r \in rows : r.id # id}

deleteEntry(id, ok) ==
  /\ calls < MaxCalls
  /\ calls' = calls + 1
  /\ IF ok /\ entriesTable
       THEN /\ entries' = DeleteEntryRows(entries, id)
            /\ entryResult' = EntryOutcome("deleteEntry", "value", <<>>)
       ELSE /\ UNCHANGED entries
            /\ entryResult' = EntryOutcome("deleteEntry", "error", <<"Failed to delete entry">>)
  /\ tracked' = NoEntry
  /\ UNCHANGED <<repository, tableVars, assetVars, commitVars>>
  /\ UNCHANGED <<engineVars, credVars, loadVars, pathResult>>

\* fetchAllEntries, lines 1044-1080.
fetchAllEntries(ok) ==
  /\ IF ok /\ entriesTable
       THEN entryResult' =
              EntryOutcome("fetchAllEntries", "value",
                           LET groups == GroupByRowId(entries) IN
                           [g \in DOMAIN groups |-> mapRowsToEntry(groups[g])])
       ELSE entryResult' =
              EntryOutcome("fetchAllEntries", "error", <<"Failed to fetch all entries">>)
  /\ UNCHANGED <<entries, tracked, repository, tableVars, assetVars, commitVars, calls>>
  /\ UNCHANGED <<engineVars, credVars, loadVars, pathResult>>

\* getEntryCount, lines 1297-1310: COUNT(DISTINCT id), 0 when the query fails.
getEntryCount(ok) ==
  IF ok /\ entriesTable THEN Cardinality({r.id : r \in entries}) ELSE 0

\* Rows as SELECT * returns them to mapRowsToEntry: one row per locale of an
\* entry, each with its own update time and author, in any order.
UpdateTimes == {1, 2}
Authors == {"alice", "bob"}
StoredRow(locale, at, by) ==
  LET entry == MakeEntry(<<"post">>, {locale}, 1, "posts") IN
  [EntryRow(entry, entry.locales[1], "posts") EXCEPT !.updated_at = at, !.updated_by = by]
RowInputs == {StoredRow(l, at, by) : l \in Locales, at \in UpdateTimes, by \in Authors}
RowSeqs ==
  {rows \in UNION {[1..n -> RowInputs] : n \in 1..Cardinality(Locales)} :
     \A i, j \in DOMAIN rows : rows[i].locale = rows[j].locale => i = j}

\* mapRowsToEntry applied to rows, lines 987-1036.
askMapRowsToEntry(rows) ==
  /\ entryResult' = EntryOutcome("mapRowsToEntry", "value",
                                 [rows |-> rows, entry |-> mapRowsToEntry(rows)])
  /\ UNCHANGED <<entries, tracked, repository, tableVars, assetVars, commitVars, calls>>
  /\ UNCHANGED <<engineVars, credVars, loadVars, pathResult>>

NextRows == \E rows \in RowSeqs : askMapRowsToEntry(rows)

NextEntry ==
  \/ \E entry \in EntryInputs :
       \E failure \in FailurePoints(Len(entry.locales)) : upsertEntry(entry, "posts", failure)
  \/ \E id \in {LocaleRowId(i, l) : i \in EntryIds, l \in Locales}, ok \in BOOLEAN :
       deleteEntry(id, ok)
  \/ \E ok \in BOOLEAN : fetchAllEntries(ok)

(***************************************************************************)
(* Asset store: queries/assets.js                                          *)
(***************************************************************************)

DEFAULT_INLINE_THRESHOLD == 5 * 1024 * 1024

\* Content lengths around the threshold, and the thresholds passed.
ContentLengths ==
  {0, 1, DEFAULT_INLINE_THRESHOLD, DEFAULT_INLINE_THRESHOLD + 1}
Thresholds == {DEFAULT_INLINE_THRESHOLD, 1}

\* `content` when the argument is left out, and a Uint8Array of a length
\* (an object, truthy whatever its length).
NoContent == [supplied |-> FALSE, length |-> 0]
Bytes(length) == [supplied |-> TRUE, length |-> length]
ContentArgs == {NoContent} \cup {Bytes(n) : n \in ContentLengths}

\* NULL in a VARCHAR column.
Null == <<"NULL">>

AssetShas == {"x", "y"}
MakeAsset(sha, blobURL) ==
  [sha |-> sha, path |-> <<"img", "/", sha, ".png">>, name |-> <<sha, ".png">>,
   kind |-> "image", size |-> 1, blobURL |-> blobURL]
AssetInputs == {MakeAsset(sha, blobURL) : sha \in AssetShas, blobURL \in {<<>>, <<"blob:1">>}}

\* `content && content.length <= threshold`, with the configured mode: line 56.
UseInline_AnyLength(content, threshold) ==
  repository.assetMode = "inline" /\ content.supplied
UseInline(content, threshold) ==
  /\ repository.assetMode = "inline"
  /\ content.supplied
  /\ content.length <= threshold

\* The row of the INSERT of insertAsset, lines 61-122.
AssetRow(asset, content, threshold) ==
  IF UseInline(content, threshold)
    THEN [id |-> asset.sha, path |-> asset.path, filename |-> asset.name,
          size |-> content.length, kind |-> asset.kind, content |-> content,
          sha |-> asset.sha, storage_mode |-> "inline", storage_url |-> Null]
    ELSE [id |-> asset.sha, path |-> asset.path, filename |-> asset.name,
          size |-> asset.size, kind |-> asset.kind, content |-> NoContent,
          sha |-> asset.sha, storage_mode |-> "external",
          storage_url |-> IF asset.blobURL # <<>> THEN asset.blobURL ELSE asset.path]

\* chk_storage_mode and chk_storage, lines 300-305.
CheckStorage(row) ==
  /\ row.storage_mode \in {"inline", "external"}
  /\ \/ row.storage_mode = "inline" /\ row.content.supplied /\ row.storage_url = Null
     \/ row.storage_mode = "external" /\ ~row.content.supplied /\ row.storage_url # Null

\* Whether the engine accepts the INSERT: the table must be the one with the
\* kind and storage_mode columns, the id (PRIMARY KEY) must be new and the
\* checks must hold.
InsertAccepted(rows, row) ==
  /\ assetsSchema = "assets.js"
  /\ \A r \in rows : r.id # row.id
  /\ CheckStorage(row)

\* How the last call ended; for an insert, the row it wrote and what it was
\* called with.
AssetOutcome(fn, kind, val) == [fn |-> fn, kind |-> kind, val |-> val]

InitAssets ==
  /\ assets = {}
  /\ assetResult = AssetOutcome("none", "none", <<>>)

\* insertAsset, lines 54-127.
insertAsset(asset, content, threshold, ok) ==
  /\ calls < MaxCalls
  /\ calls' = calls + 1
  /\ LET row == AssetRow(asset, content, threshold) IN
     IF ok /\ InsertAccepted(assets, row)
       THEN /\ assets' = assets \cup {row}
            /\ assetResult' =
                 AssetOutcome("insertAsset", "value",
                              [row |-> row, content |-> content, threshold |-> threshold,
                               assetMode |-> repository.assetMode])
       ELSE /\ UNCHANGED assets
            /\ assetResult' = AssetOutcome("insertAsset", "error", <<"Failed to insert asset">>)
  /\ UNCHANGED <<repository, tableVars, entryVars, commitVars>>
  /\ UNCHANGED <<engineVars, credVars, loadVars, pathResult>>

\* The fields updateAsset is given: name, path and size or none of them
\* (`undefined` size is NoSize), and a new URL or none.
NoSize == -1
AssetUpdates ==
  {[name |-> <<>>, path |-> <<>>, size |-> NoSize, blobURL |-> u] : u \in {<<>>, <<"blob:2">>}}
    \cup {[name |-> <<"z", ".png">>, path |-> <<"img", "/", "z", ".png">>, size |-> 2,
           blobURL |-> u] : u \in {<<>>, <<"blob:2">>}}

\* The SET clauses of updateAsset applied to a row, lines 143-166.
UpdatedRow_KeepsUrl(row, updates, content) ==
  LET named == [row EXCEPT
                  !.filename = IF updates.name # <<>> THEN updates.name ELSE @,
                  !.path = IF updates.path # <<>> THEN updates.path ELSE @,
                  !.size = IF updates.size # NoSize THEN updates.size ELSE @]
  IN IF content.supplied
       THEN [named EXCEPT !.content = content, !.storage_mode = "inline"]
     ELSE IF updates.blobURL # <<>>
       THEN [named EXCEPT !.storage_url = updates.blobURL, !.storage_mode = "external",
                          !.content = NoContent]
     ELSE named
UpdatedRow(row, updates, content) ==
  LET named == [row EXCEPT
                  !.filename = IF updates.name # <<>> THEN updates.name ELSE @,
                  !.path = IF updates.path # <<>> THEN updates.path ELSE @,
                  !.size = IF updates.size # NoSize THEN updates.size ELSE @]
  IN IF content.supplied
       THEN [named EXCEPT !.content = content, !.storage_mode = "inline",
                          !.storage_url = Null]
     ELSE IF updates.blobURL # <<>>
       THEN [named EXCEPT !.storage_url = updates.blobURL, !.storage_mode = "external",
                          !.content = NoContent]
     ELSE named

\* Whether the UPDATE names a column only the assets.js table has.
NamesStorageMode(updates, content) == content.supplied \/ updates.blobURL # <<>>

\* The SET clauses updateAsset collects, lines 140-166, by the column each
\* one assigns; the last one is pushed unconditionally.
SetClauses(updates, content) ==
  (IF updates.name # <<>> THEN <<"filename">> ELSE <<>>)
  \o (IF updates.path # <<>> THEN <<"path">> ELSE <<>>)
  \o (IF updates.size # NoSize THEN <<"size">> ELSE <<>>)
  \o (IF content.supplied THEN <<"content", "storage_mode", "storage_url">>
      ELSE IF updates.blobURL # <<>> THEN <<"storage_url", "storage_mode", "content">>
      ELSE <<>>)
  \o <<"updated_at">>

\* What a call of updateAsset was given and how many statements it sent.
UpdateRecord(id, updates, content, queries) ==
  [id |-> id, updates |-> updates, content |-> content, queries |-> queries]

\* updateAsset, lines 138-183: returns without a query when no SET clause
\* was collected (lines 168-170), else issues the UPDATE.  The row after the
\* UPDATE is decided by the SET clauses alone; the table's CHECK constraints
\* are not relied on to reject it.
updateAsset(id, updates, content, ok) ==
  /\ calls < MaxCalls
  /\ calls' = calls + 1
  /\ IF Len(SetClauses(updates, content)) = 0
       THEN /\ UNCHANGED assets
            /\ assetResult' = AssetOutcome("updateAsset", "value",
                                           UpdateRecord(id, updates, content, 0))
     ELSE IF /\ ok
             /\ assetsSchema # "none"
             /\ NamesStorageMode(updates, content) => assetsSchema = "assets.js"
       THEN /\ assets' = {IF r.id = id THEN UpdatedRow(r, updates, content) ELSE r :
                            r \in assets}
            /\ assetResult' = AssetOutcome("updateAsset", "value",
                                           UpdateRecord(id, updates, content, 1))
       ELSE /\ UNCHANGED assets
            /\ assetResult' = AssetOutcome("updateAsset", "error",
                                           UpdateRecord(id, updates, content, 1))
  /\ UNCHANGED <<repository, tableVars, entryVars, commitVars>>
  /\ UNCHANGED <<engineVars, credVars, loadVars, pathResult>>

\* DELETE FROM cms.assets WHERE id = '${id}'
DeleteAssetRows(rows, id) == {r \in rows : r.id # id}

\* deleteAsset, lines 192-201.
deleteAsset(id, ok) ==
  /\ calls < MaxCalls
  /\ calls' = calls + 1
  /\ IF ok /\ assetsSchema # "none"
       THEN /\ assets' = DeleteAssetRows(assets, id)
            /\ assetResult' = AssetOutcome("deleteAsset", "value", <<>>)
       ELSE /\ UNCHANGED assets
            /\ assetResult' = AssetOutcome("deleteAsset", "error", <<"Failed to delete asset">>)
  /\ UNCHANGED <<repository, tableVars, entryVars, commitVars>>
  /\ UNCHANGED <<engineVars, credVars, loadVars, pathResult>>

NextAsset ==
  \/ \E backend \in BackendConfigs : init(backend)
  \/ initializeSchema
  \/ initializeAssetsTable
  \/ \E asset \in AssetInputs, content \in ContentArgs, threshold \in Thresholds,
        ok \in BOOLEAN : insertAsset(asset, content, threshold, ok)
  \/ \E id \in AssetShas, updates \in AssetUpdates, content \in ContentArgs, ok \in BOOLEAN :
       updateAsset(id, updates, content, ok)
  \/ \E id \in AssetShas, ok \in BOOLEAN : deleteAsset(id, ok)


(***************************************************************************)
(* Snapshots: exportEntriesToParquet / loadEntriesFromParquet              *)
(* (queries/entries.js) and exportAssetsToParquet / loadAssetsFromParquet  *)
(* (queries/assets.js).                                                    *)
(***************************************************************************)
Tables == {"entries", "assets"}

\* A Parquet file: the table it was exported from, the column layout of that
\* table and the rows.
File(t, layout, rows) == [table |-> t, layout |-> layout, rows |-> rows]
NoFile == File("none", "none", {})

\* Rows of the local table, and the CREATE TABLE that made it ("none" when
\* the table does not exist).
TableRows(t) == IF t = "entries" THEN entries ELSE assets
TableLayout(t) ==
  IF t = "entries" THEN (IF entriesTable THEN "schema.js" ELSE "none") ELSE assetsSchema

\* Snapshots found in storage, written by an earlier session: one row each.
StoredEntry == MakeEntry(<<"post">>, {"_default"}, 1, "posts")
StoredAsset == MakeAsset("y", <<>>)
StoredFile(t) ==
  IF t = "entries"
    THEN File(t, "schema.js",
              {[EntryRow(StoredEntry, StoredEntry.locales[1], "posts") EXCEPT !.updated_at = 0]})
    ELSE File(t, "assets.js",
              {[id |-> StoredAsset.sha, path |-> StoredAsset.path,
                filename |-> StoredAsset.name, size |-> 1, kind |-> StoredAsset.kind,
                content |-> Bytes(1), sha |-> StoredAsset.sha, storage_mode |-> "inline",
                storage_url |-> Null]})

\* COPY (SELECT * FROM cms.<table>) TO ... (FORMAT PARQUET): the file holds
\* the rows of the table at the time of the statement.
ExportedFile(t) == File(t, TableLayout(t), TableRows(t))

NoLoad == [table |-> "none", file |-> NoFile]
LoadOutcome(kind, req) == [kind |-> kind, req |-> req]

InitLoad ==
  /\ lpc = [p \in Procs |-> "idle"]
  /\ lreq = [p \in Procs |-> NoLoad]
  /\ exported = [t \in Tables |-> NoFile]
  /\ loadResult = [p \in Procs |-> LoadOutcome("none", NoLoad)]

\* exportEntriesToParquet, entries.js lines 1259-1290, and
\* exportAssetsToParquet, assets.js lines 245-268.
exportToParquet(t, ok) ==
  /\ calls < MaxCalls
  /\ calls' = calls + 1
  /\ exported' = IF ok /\ TableLayout(t) # "none"
                   THEN [exported EXCEPT ![t] = ExportedFile(t)]
                   ELSE exported
  /\ UNCHANGED <<lpc, lreq, loadResult>>
  /\ UNCHANGED <<repository, tableVars, entryVars, assetVars, commitVars>>
  /\ UNCHANGED <<engineVars, credVars, pathResult>>

\* The table a statement of a load changes, and the frame around it.
SetTableRows(t, rows) ==
  IF t = "entries"
    THEN /\ entries' = rows
         /\ tracked' = NoEntry
         /\ UNCHANGED <<entryResult, assetVars>>
    ELSE /\ assets' = rows
         /\ UNCHANGED <<assetResult, entryVars>>

LoadEnds(p, kind) ==
  /\ lpc' = [lpc EXCEPT ![p] = "idle"]
  /\ loadResult' = [loadResult EXCEPT ![p] = LoadOutcome(kind, lreq[p])]

\* The files a load can be given: the stored snapshot of the table or the one
\* last exported from it.
LoadableFiles(t) == {StoredFile(t)} \cup ({exported[t]} \ {NoFile})

\* loadEntriesFromParquet up to `await initEntriesTable(conn)` (entries.js
\* lines 945-950), loadAssetsFromParquet up to the DELETE (assets.js lines
\* 327-330).
loadFromParquet(p, t, file) ==
  /\ lpc[p] = "idle"
  /\ file \in LoadableFiles(t)
  /\ calls < MaxCalls
  /\ calls' = calls + 1
  /\ lpc' = [lpc EXCEPT ![p] = IF t = "entries" THEN "l_schema" ELSE "l_delete"]
  /\ lreq' = [lreq EXCEPT ![p] = [table |-> t, file |-> file]]
  /\ UNCHANGED <<exported, loadResult>>
  /\ UNCHANGED <<repository, tableVars, entryVars, assetVars, commitVars>>
  /\ UNCHANGED <<engineVars, credVars, pathResult>>

\* initEntriesTable settles, entries.js lines 921-935 and 950.
LoadSchemaDone(p, ok) ==
  /\ lpc[p] = "l_schema"
  /\ IF ok
       THEN /\ SchemaEffect
            /\ lpc' = [lpc EXCEPT ![p] = "l_delete"]
            /\ UNCHANGED loadResult
       ELSE /\ LoadEnds(p, "error")
            /\ UNCHANGED tableVars
  /\ UNCHANGED <<lreq, exported, calls>>
  /\ UNCHANGED <<repository, entryVars, assetVars, commitVars>>
  /\ UNCHANGED <<engineVars, credVars, pathResult>>

\* `DELETE FROM cms.<table>` settles, entries.js line 953, assets.js line 330.
LoadDeleteDone(p, ok) ==
  /\ lpc[p] = "l_delete"
  /\ IF ok /\ TableLayout(lreq[p].table) # "none"
       THEN /\ SetTableRows(lreq[p].table, {})
            /\ lpc' = [lpc EXCEPT ![p] = "l_insert"]
            /\ UNCHANGED loadResult
       ELSE /\ LoadEnds(p, "error")
            /\ UNCHANGED <<entryVars, assetVars>>
  /\ UNCHANGED <<lreq, exported, calls>>
  /\ UNCHANGED <<repository, tableVars, commitVars>>
  /\ UNCHANGED <<engineVars, credVars, pathResult>>

\* Whether the engine accepts `INSERT INTO cms.<table> SELECT * FROM
\* read_parquet(...)`: the columns of the file are those of the table, and
\* the keys (PRIMARY KEY, UNIQUE) and checks of the table hold for the rows
\* of the table together with the rows of the file.
InsertSelectAccepted(t, rows, file) ==
  /\ TableLayout(t) # "none"
  /\ file.layout = TableLayout(t)
  /\ \A r \in rows, f \in file.rows : r.id # f.id
  /\ \A f, g \in file.rows : f.id = g.id => f = g
  /\ t = "entries" =>
       \A r \in rows \cup file.rows, f \in file.rows :
         (r.collection = f.collection /\ r.slug = f.slug /\ r.locale = f.locale) => r = f
  /\ (t = "assets" /\ TableLayout(t) = "schema.js") =>
       \A r \in rows \cup file.rows, f \in file.rows : r.path = f.path => r = f
  /\ (t = "assets" /\ TableLayout(t) = "assets.js") =>
       \A f \in file.rows : CheckStorage(f)

\* The INSERT ... SELECT settles, entries.js lines 956-959, assets.js lines
\* 333-336.
LoadInsertDone(p, ok) ==
  /\ lpc[p] = "l_insert"
  /\ LET t == lreq[p].table IN
     IF ok /\ InsertSelectAccepted(t, TableRows(t), lreq[p].file)
       THEN /\ SetTableRows(t, TableRows(t) \cup lreq[p].file.rows)
            /\ LoadEnds(p, "value")
       ELSE /\ LoadEnds(p, "error")
            /\ UNCHANGED <<entryVars, assetVars>>
  /\ UNCHANGED <<lreq, exported, calls>>
  /\ UNCHANGED <<repository, tableVars, commitVars>>
  /\ UNCHANGED <<engineVars, credVars, pathResult>>

\* loadEntries and loadAssets of fetchFiles, files.js lines 119-153 and
\* 163-192, up to the first statement of the load: a negative existence probe
\* (fileExists, lines 95-110: the HEAD request was not answered ok, or threw)
\* returns without touching the table, otherwise the published snapshot is
\* loaded.  An error of the load is caught and logged, so the caller goes on
\* with the table as the failed load left it.
loadSnapshot(p, t, exists) ==
  /\ lpc[p] = "idle"
  /\ loadResult[p].kind = "none"
  /\ IF exists
       THEN /\ lpc' = [lpc EXCEPT ![p] = IF t = "entries" THEN "l_schema" ELSE "l_delete"]
            /\ lreq' = [lreq EXCEPT ![p] = [table |-> t, file |-> StoredFile(t)]]
            /\ UNCHANGED loadResult
       ELSE /\ loadResult' = [loadResult EXCEPT
                                ![p] = LoadOutcome("skipped", [table |-> t, file |-> NoFile])]
            /\ UNCHANGED <<lpc, lreq>>
  /\ UNCHANGED <<exported, calls>>
  /\ UNCHANGED <<repository, tableVars, entryVars, assetVars, commitVars>>
  /\ UNCHANGED <<engineVars, credVars, pathResult>>

\* Loads and exports of both tables, with writes of the two stores going on.
NextSnapshot ==
  \/ initializeSchema
  \/ initializeAssetsTable
  \/ \E ok \in BOOLEAN :
       insertAsset(MakeAsset("x", <<>>), Bytes(1), DEFAULT_INLINE_THRESHOLD, ok)
  \/ upsertEntry(MakeEntry(<<"post", "_", "en">>, {"_default"}, 1, "posts"), "posts", NoFailure)
  \/ \E t \in Tables, ok \in BOOLEAN : exportToParquet(t, ok)
  \/ \E p \in Procs, t \in Tables, src \in {"stored", "exported"} :
       loadFromParquet(p, t, IF src = "stored" THEN StoredFile(t) ELSE exported[t])
  \/ \E p \in Procs, ok \in BOOLEAN : LoadSchemaDone(p, ok)
  \/ \E p \in Procs, ok \in BOOLEAN : LoadDeleteDone(p, ok)
  \/ \E p \in Procs, ok \in BOOLEAN : LoadInsertDone(p, ok)

(***************************************************************************)
(* Count queries: getEntryCount (queries/entries.js), getAssetCountByKind  *)
(* (queries/assets.js), getTableStats (queries/schema.js).                 *)
(***************************************************************************)

\* What a count call reports: whether one of its queries failed, and the
\* count it returned (the error message when it threw).
CountRecord(failed, count) == [failed |-> failed, count |-> count]

\* getAssetCountByKind, assets.js lines 347-366: kind -> COUNT(*), or the
\* error thrown from the catch block.
AssetKinds == {r.kind : r \in assets}
getAssetCountByKind(ok) ==
  IF ok /\ assetsSchema = "assets.js"
    THEN AssetOutcome("getAssetCountByKind", "value",
                      CountRecord(FALSE,
                                  [k \in AssetKinds |->
                                     Cardinality({r \in assets : r.kind = k})]))
    ELSE AssetOutcome("getAssetCountByKind", "error",
                      CountRecord(TRUE, <<"Failed to get asset counts">>))

\* getTableStats, schema.js lines 198-213: COUNT(*) of both tables, or the
\* error thrown from the catch block when either query fails.
getTableStats(okEntries, okAssets) ==
  IF okEntries /\ entriesTable /\ okAssets /\ assetsSchema # "none"
    THEN AssetOutcome("getTableStats", "value",
                      CountRecord(FALSE, [entries |-> Cardinality(entries),
                                          assets |-> Cardinality(assets)]))
    ELSE AssetOutcome("getTableStats", "error",
                      CountRecord(TRUE, <<"Failed to get table statistics">>))

\* A caller asks for the entry count.
askEntryCount(ok) ==
  /\ entryResult' = EntryOutcome("getEntryCount", "value",
                                 CountRecord(~(ok /\ entriesTable), getEntryCount(ok)))
  /\ UNCHANGED <<entries, tracked, repository, tableVars, assetVars, commitVars, calls>>
  /\ UNCHANGED <<engineVars, credVars, loadVars, pathResult>>

\* A caller asks for the asset counts by kind.
askAssetCountByKind(ok) ==
  /\ assetResult' = getAssetCountByKind(ok)
  /\ UNCHANGED <<assets, repository, tableVars, entryVars, commitVars, calls>>
  /\ UNCHANGED <<engineVars, credVars, loadVars, pathResult>>

\* A caller asks for the table statistics.
askTableStats(okEntries, okAssets) ==
  /\ assetResult' = getTableStats(okEntries, okAssets)
  /\ UNCHANGED <<assets, repository, tableVars, entryVars, commitVars, calls>>
  /\ UNCHANGED <<engineVars, credVars, loadVars, pathResult>>

\* The tables are created and written, and counted in between.
NextCount ==
  \/ initializeSchema
  \/ initializeAssetsTable
  \/ \E id \in EntryIds : upsertEntry(MakeEntry(id, {"_default"}, 1, "posts"), "posts", NoFailure)
  \/ \E sha \in AssetShas :
       insertAsset(MakeAsset(sha, <<>>), Bytes(1), DEFAULT_INLINE_THRESHOLD, TRUE)
  \/ \E ok \in BOOLEAN : askEntryCount(ok)
  \/ \E ok \in BOOLEAN : askAssetCountByKind(ok)
  \/ \E okEntries \in BOOLEAN, okAssets \in BOOLEAN : askTableStats(okEntries, okAssets)
(***************************************************************************)
(* Commit pipeline: commits.js                                             *)
(***************************************************************************)

\* `change.data`: undefined, a string (file content) or bytes of a length.
NoData == [defined |-> FALSE, kind |-> "none", length |-> 0, text |-> <<>>]
Text(tokens) == [defined |-> TRUE, kind |-> "string", length |-> Len(tokens), text |-> tokens]
BytesData(length) == [defined |-> TRUE, kind |-> "bytes", length |-> length, text |-> <<>>]

\* Truthiness of change.data: '' is falsy, a Uint8Array or Blob is truthy.
Truthy(data) == data.defined /\ ~(data.kind = "string" /\ data.length = 0)

NoAsset == [sha |-> "", path |-> <<>>, name |-> <<>>, kind |-> "", size |-> 0,
            blobURL |-> <<>>]

\* File contents: with a front-matter header, and without one.
DocWithHeader == <<"---", "\n", "title", "\n", "---", "\n", "hello", " ">>
DocPlain == <<"hello">>

\* parseFrontmatterContent, lines 30-51: /^---\n([\s\S]*?)\n---\n?([\s\S]*)$/
\* (the header of the documents used is valid YAML; body.trim()).
parseFrontmatterContent(data) ==
  IF /\ Len(data) >= 5
     /\ data[1] = "---" /\ data[2] = "\n" /\ data[4] = "\n" /\ data[5] = "---"
    THEN LET rest == IF Len(data) >= 6 /\ data[6] = "\n"
                       THEN SubSeq(data, 7, Len(data)) ELSE SubSeq(data, 6, Len(data))
         IN [frontmatter |-> <<data[3]>>,
             body |-> SelectSeq(rest, LAMBDA t : t # " ")]
    ELSE [frontmatter |-> <<>>, body |-> data]

\* The tokens after the last separator: path.split('/').pop()
RECURSIVE LastSegment(_)
LastSegment(path) ==
  IF \A i \in DOMAIN path : path[i] # "/" THEN path
  ELSE LastSegment(Tail(path))

\* fileChangeToEntry, lines 59-86.
fileChangeToEntry(change, collectionName) ==
  LET parsed == parseFrontmatterContent(change.data.text)
      content == parsed.frontmatter \o
                   (IF parsed.body # <<>> THEN <<"body", ":">> \o parsed.body ELSE <<>>)
  IN [id |-> IF change.slug # <<>> THEN change.slug
             ELSE LastSegment(StripExtension(change.path)),
      sha |-> "", slug |-> change.slug, commitAuthor |-> "",
      locales |-> <<[locale |-> "_default", slug |-> change.slug, path |-> change.path,
                     content |-> content]>>]

\* The changes a batch is made of.
Change(action, path, slug, data, entry, asset, previousPath) ==
  [action |-> action, path |-> path, slug |-> slug, data |-> data, entry |-> entry,
   asset |-> asset, previousPath |-> previousPath]

PostA == <<"posts", "/", "a", ".md">>
PostB == <<"posts", "/", "b", ".md">>

ChangeShapes ==
  { Change("create", PostA, <<"a">>, Text(DocWithHeader), NoEntry, NoAsset, <<>>),
    Change("delete", PostA, <<"a">>, NoData, NoEntry, NoAsset, <<>>),
    Change("move", PostB, <<"b">>, Text(DocPlain), NoEntry, NoAsset, PostA),
    Change("create", MakeAsset("x", <<>>).path, <<>>, BytesData(1), NoEntry,
           MakeAsset("x", <<>>), <<>>),
    Change("create", MakeAsset("y", <<>>).path, <<>>,
           BytesData(DEFAULT_INLINE_THRESHOLD + 1), NoEntry, MakeAsset("y", <<>>), <<>>),
    Change("create", <<"docs", "/", "x", ".txt">>, <<>>, Text(DocPlain), NoEntry,
           [MakeAsset("x", <<>>) EXCEPT !.path = <<"docs", "/", "x", ".txt">>,
                                        !.kind = "document"], <<>>) }

\* A commit costs one call and one more for each change.
Batches == UNION {[1..n -> ChangeShapes] : n \in 0..(MaxCalls - 1)}

\* c.path.match(/\.(jpg|jpeg|png|gif|svg|webp|mp4|webm|pdf|doc)$/i), line 363.
AssetExtensions == {".jpg", ".jpeg", ".png", ".gif", ".svg", ".webp", ".mp4", ".webm",
                    ".pdf", ".doc"}
HasAssetExtension(path) == Len(path) >= 1 /\ path[Len(path)] \in AssetExtensions

\* The filters of commitChanges, lines 361-366.
IsEntryChange(c) ==
  /\ c.path # <<>> /\ ~HasAssetExtension(c.path)
  /\ (c.data.defined \/ c.entry # NoEntry)
IsAssetChange(c) == c.asset # NoAsset

\* The positions of the batch that pass a filter, in batch order.
Positions(changes, Keep(_)) ==
  SelectSeq([i \in 1..Len(changes) |-> i], LAMBDA i : Keep(changes[i]))

NoUpload == [state |-> "idle", url |-> 0, path |-> <<>>, content |-> {}]
Snapshots == {"entries", "assets"}

NoCommitResult == [kind |-> "none", stage |-> "none"]

InitCommit ==
  /\ cmpc = "idle"
  /\ batch = <<>>
  /\ entryChanges = <<>> /\ assetChanges = <<>>
  /\ assetMode = ""
  /\ cursor = 1
  /\ applied = <<>>
  /\ failedAt = 0
  /\ puts = <<>>
  /\ signs = 0
  /\ upload = [u \in Snapshots |-> NoUpload]
  /\ commitResult = NoCommitResult

\* The catch block of commitChanges, lines 421-427.
CommitFails(stage) ==
  /\ cmpc' = "failed"
  /\ commitResult' = [kind |-> "error", stage |-> stage]

\* Where the commit goes once `position` changes of a list of `total` are
\* done: on in the list, or to the stage after it.
AfterChange_OneShort(position, total, stage, following) ==
  IF position < total THEN stage ELSE following
AfterChange(position, total, stage, following) ==
  IF position <= total THEN stage ELSE following

\* commitChanges up to the first change, lines 341-378.
commitChanges(changes, connected) ==
  /\ cmpc \in {"idle", "done", "failed"}
  /\ \A u \in Snapshots : upload[u].state \notin {"sign", "put"}
  /\ calls + 1 + Len(changes) <= MaxCalls
  /\ calls' = calls + 1 + Len(changes)
  /\ batch' = changes
  /\ applied' = <<>> /\ failedAt' = 0 /\ puts' = <<>> /\ cursor' = 1
  /\ upload' = [u \in Snapshots |-> NoUpload]
  /\ IF connected
       THEN /\ entryChanges' = Positions(changes, IsEntryChange)
            /\ assetChanges' = Positions(changes, IsAssetChange)
            /\ cmpc' = AfterChange(1, Len(entryChanges'), "entries",
                                   AfterChange(1, Len(assetChanges'), "assets",
                                               "exportEntries"))
            /\ commitResult' = NoCommitResult
       ELSE /\ entryChanges' = <<>> /\ assetChanges' = <<>>
            /\ CommitFails("connection")
  /\ UNCHANGED <<signs, assetMode, repository, tableVars, entryVars, assetVars>>
  /\ UNCHANGED <<engineVars, credVars, loadVars, pathResult>>

\* A failure of deleteEntry, besides the failure points of upsertEntry.
DeleteFailure == [at |-> 0, stage |-> "deleteEntry"]
ChangeFailures == FailurePoints(2) \cup {DeleteFailure}

Applied(rows, schema, mutated) ==
  [rows |-> rows, ok |-> TRUE, schema |-> schema, mutated |-> mutated]
NotApplied(rows, schema) ==
  [rows |-> rows, ok |-> FALSE, schema |-> schema, mutated |-> FALSE]

\* change.entry || (change.data ? fileChangeToEntry(...) : null), lines 232, 251.
\* File content that is not a string has no match(): TypeError.
EntryOf(change, collectionName) ==
  IF change.entry # NoEntry THEN [entry |-> change.entry, thrown |-> FALSE]
  ELSE IF Truthy(change.data)
    THEN IF change.data.kind = "string"
           THEN [entry |-> fileChangeToEntry(change, collectionName), thrown |-> FALSE]
           ELSE [entry |-> NoEntry, thrown |-> TRUE]
    ELSE [entry |-> NoEntry, thrown |-> FALSE]

\* upsertEntry as called for a change: the rows afterwards.
UpsertForChange(rows, change, collectionName, failure) ==
  LET found == EntryOf(change, collectionName) IN
  IF found.thrown THEN NotApplied(rows, FALSE)
  ELSE IF found.entry = NoEntry THEN Applied(rows, FALSE, FALSE)
  ELSE IF failure = SchemaFailure THEN NotApplied(rows, FALSE)
  ELSE LET done == UpsertRows(rows, found.entry, collectionName, failure, 1)
       IN IF done.ok THEN Applied(done.rows, TRUE, TRUE) ELSE NotApplied(done.rows, TRUE)

\* The body of the loop of processEntryChanges for one change, lines 222-257.
ApplyEntryChange(change, collectionName, failure) ==
  IF change.action = "delete"
    THEN IF change.slug # <<>>
           THEN IF failure = DeleteFailure \/ ~entriesTable
                  THEN NotApplied(entries, FALSE)
                  ELSE Applied(DeleteEntryRows(entries, change.slug), FALSE, TRUE)
           ELSE Applied(entries, FALSE, FALSE)
  ELSE IF change.action \in {"create", "update"}
    THEN UpsertForChange(entries, change, collectionName, failure)
  ELSE IF change.action = "move"
    THEN IF change.previousPath # <<>>
           THEN IF failure = DeleteFailure \/ ~entriesTable
                  THEN NotApplied(entries, FALSE)
                  ELSE LET r == UpsertForChange(
                                  DeleteEntryRows(entries,
                                    LastSegment(StripExtension(change.previousPath))),
                                  change, collectionName, failure)
                       IN [r EXCEPT !.mutated = r.ok]
           ELSE UpsertForChange(entries, change, collectionName, failure)
  ELSE Applied(entries, FALSE, FALSE)

\* The catch blocks of the loops rethrow, lines 258-264 and 323-327.
ChangeFailed_Swallowed(ok) == FALSE
ChangeFailed(ok) == ~ok

\* One change of processEntryChanges, called at line 377.
EntryChangeStep(failure) ==
  /\ cmpc = "entries"
  /\ LET i == entryChanges[cursor]
         r == ApplyEntryChange(batch[i], "posts", failure)
     IN /\ entries' = r.rows
        /\ IF r.schema THEN SchemaEffect ELSE UNCHANGED tableVars
        /\ failedAt' = IF r.ok THEN failedAt ELSE i
        /\ IF ChangeFailed(r.ok)
             THEN /\ CommitFails("entries")
                  /\ UNCHANGED <<cursor, applied>>
             ELSE /\ applied' = IF r.mutated
                                  THEN Append(applied, [change |-> i, table |-> "entries"])
                                  ELSE applied
                  /\ cmpc' = AfterChange(cursor + 1, Len(entryChanges), "entries",
                                         AfterChange(1, Len(assetChanges), "assets",
                                                     "exportEntries"))
                  /\ cursor' = IF cursor + 1 <= Len(entryChanges) THEN cursor + 1 ELSE 1
                  /\ UNCHANGED commitResult
  /\ tracked' = NoEntry
  /\ UNCHANGED <<entryResult, batch, entryChanges, assetChanges, assetMode, puts, signs, upload,
                 repository, assetVars, calls>>
  /\ UNCHANGED <<engineVars, credVars, loadVars, pathResult>>

\* getPresignedUrl(path, 'PUT') as called by the uploads, lines 136 and 175:
\* PUT URLs are never looked up in the cache, so a request goes out whenever
\* the proxy is configured and a token is set.  `requests` of them go out
\* together; `denied` tells whether an answer was a 401 or 403.
SigningRequests(requests) ==
  /\ fetchCount' = fetchCount + (IF ProxyPrecheck = "" THEN requests ELSE 0)
  /\ signs' = signs + (IF ProxyPrecheck = "" THEN requests ELSE 0)

SigningAnswer(status) ==
  IF IsAuthFailure(status)
    THEN ClearEffect /\ authFailed' = TRUE
    ELSE UNCHANGED <<sessionToken, cacheUrls, cacheExpiry, authFailed>>

NoSigning ==
  UNCHANGED <<fetchCount, signs, sessionToken, cacheUrls, cacheExpiry, authFailed>>

\* A PUT request to storage: its kind, target, the signed URL it uses (the
\* number of the signing request that produced it) and how it ended.
PutRequest(kind, path, url, state) ==
  [kind |-> kind, path |-> path, url |-> url, state |-> state]

\* assetMode === 'external' && content.length > 5 * 1024 * 1024, line 305.
NeedsExternalUpload_Never(mode, data) == FALSE
NeedsExternalUpload(mode, data) ==
  mode = "external" /\ data.length > 5 * 1024 * 1024

\* const { assetMode } = repository, line 285: read once, when
\* processAssetChanges starts, and used for every change of the list.
AssetModeOfStage == IF cursor = 1 THEN repository.assetMode ELSE assetMode

\* `!response.ok` makes the upload throw, lines 147-151 and 186-190.
UploadAccepted_Unchecked(responseOk) == TRUE
UploadAccepted(responseOk) == responseOk

\* One change of processAssetChanges, called at line 378: the signing
\* request and the PUT of an external upload, then the insert.
AssetChangeStep(status, responseOk, ok) ==
  /\ cmpc = "assets"
  /\ LET i == assetChanges[cursor]
         change == batch[i]
         creates == change.action \in {"create", "update"} /\ Truthy(change.data)
         deletes == change.action = "delete" /\ change.asset.sha # ""
         external == creates /\ NeedsExternalUpload(AssetModeOfStage, change.data)
         storagePath == getFullStoragePath(<<"assets", "/">> \o change.asset.path)
         signed == ProxyPrecheck = "" /\ status = 200
         uploaded == signed /\ UploadAccepted(responseOk)
         row == AssetRow(IF external THEN [change.asset EXCEPT !.blobURL = storagePath]
                         ELSE change.asset,
                         Bytes(change.data.length), DEFAULT_INLINE_THRESHOLD)
         inserted == creates /\ (external => uploaded) /\ ok /\ InsertAccepted(assets, row)
         deleted == deletes /\ ok /\ assetsSchema # "none"
         done == inserted \/ deleted \/ (~creates /\ ~deletes)
     IN /\ IF external
             THEN /\ SigningRequests(1)
                  /\ IF ProxyPrecheck = "" THEN SigningAnswer(status)
                     ELSE UNCHANGED <<sessionToken, cacheUrls, cacheExpiry, authFailed>>
                  /\ puts' = IF signed
                               THEN Append(puts, PutRequest("asset", storagePath, signs + 1,
                                             IF responseOk THEN "ok" ELSE "failed"))
                               ELSE puts
             ELSE NoSigning /\ UNCHANGED puts
        /\ assets' = IF inserted THEN assets \cup {row}
                     ELSE IF deleted THEN DeleteAssetRows(assets, change.asset.sha)
                     ELSE assets
        /\ failedAt' = IF done THEN failedAt ELSE i
        /\ IF ChangeFailed(done)
             THEN /\ CommitFails("assets")
                  /\ UNCHANGED <<cursor, applied>>
             ELSE /\ applied' = IF inserted \/ deleted
                                  THEN Append(applied, [change |-> i, table |-> "assets"])
                                  ELSE applied
                  /\ cmpc' = AfterChange(cursor + 1, Len(assetChanges), "assets",
                                         "exportEntries")
                  /\ cursor' = IF cursor + 1 <= Len(assetChanges) THEN cursor + 1 ELSE 1
                  /\ UNCHANGED commitResult
        /\ assetMode' = IF done /\ cursor + 1 <= Len(assetChanges)
                           THEN AssetModeOfStage ELSE ""
  /\ UNCHANGED <<assetResult, batch, entryChanges, assetChanges, upload,
                 repository, tableVars, entryVars, calls>>
  /\ UNCHANGED <<proxyUrl, provider, now, cpc, creq, outcome>>
  /\ UNCHANGED <<engineVars, loadVars, pathResult>>

\* exportEntriesToParquet, awaited at line 382.
ExportEntries(ok) ==
  /\ cmpc = "exportEntries"
  /\ IF ok /\ entriesTable
       THEN /\ upload' = [upload EXCEPT !["entries"].content = entries]
            /\ cmpc' = "exportAssets"
            /\ UNCHANGED commitResult
       ELSE /\ CommitFails("export")
            /\ UNCHANGED upload
  /\ UNCHANGED <<batch, entryChanges, assetChanges, assetMode, cursor, applied, failedAt, puts, signs,
                 repository, tableVars, entryVars, assetVars, calls>>
  /\ UNCHANGED <<engineVars, credVars, loadVars, pathResult>>

\* exportAssetsToParquet, awaited at line 383, and the start of both uploads,
\* lines 388-394: each uploadParquetFile runs up to its signing request.
ExportAssets(ok) ==
  /\ cmpc = "exportAssets"
  /\ IF ok /\ assetsSchema # "none"
       THEN /\ SigningRequests(2)
            /\ IF ProxyPrecheck = ""
                 THEN /\ upload' =
                           [u \in Snapshots |->
                              [state |-> "sign",
                               url |-> signs + (IF u = "entries" THEN 1 ELSE 2),
                               path |-> getFullStoragePath(<<u, ".parquet">>),
                               content |-> IF u = "assets" THEN assets
                                           ELSE upload[u].content]]
                      /\ cmpc' = "upload"
                      /\ UNCHANGED commitResult
                 ELSE /\ upload' = [u \in Snapshots |-> [upload[u] EXCEPT !.state = "failed"]]
                      /\ CommitFails("upload")
       ELSE /\ CommitFails("export")
            /\ UNCHANGED <<upload, fetchCount, signs>>
  /\ UNCHANGED <<batch, entryChanges, assetChanges, assetMode, cursor, applied, failedAt, puts,
                 repository, tableVars, entryVars, assetVars, calls>>
  /\ UNCHANGED <<proxyUrl, provider, sessionToken, cacheUrls, cacheExpiry, now, cpc, creq,
                 outcome, authFailed>>
  /\ UNCHANGED <<engineVars, loadVars, pathResult>>

\* Promise.all rejects as soon as one upload fails, lines 391-394.
UploadFails(u) ==
  /\ upload' = [upload EXCEPT ![u].state = "failed"]
  /\ IF cmpc = "upload" THEN CommitFails("upload") ELSE UNCHANGED <<cmpc, commitResult>>

\* The signing service answers the request of an upload; with a URL the PUT
\* goes out, lines 136-145.
UploadSigned(u, status) ==
  /\ upload[u].state = "sign"
  /\ SigningAnswer(status)
  /\ IF status = 200
       THEN /\ upload' = [upload EXCEPT ![u].state = "put"]
            /\ puts' = Append(puts, PutRequest("snapshot", upload[u].path, upload[u].url,
                                               "pending"))
            /\ UNCHANGED <<cmpc, commitResult>>
       ELSE /\ UploadFails(u)
            /\ UNCHANGED puts
  /\ UNCHANGED <<batch, entryChanges, assetChanges, assetMode, cursor, applied, failedAt, signs,
                 repository, tableVars, entryVars, assetVars, calls>>
  /\ UNCHANGED <<proxyUrl, provider, now, cpc, creq, outcome, fetchCount>>
  /\ UNCHANGED <<engineVars, loadVars, pathResult>>

\* Storage answers the PUT of an upload, lines 147-153; the commit goes on
\* once both uploads are through.
UploadPut(u, responseOk) ==
  /\ upload[u].state = "put"
  /\ puts' = [k \in DOMAIN puts |->
                IF puts[k].url = upload[u].url
                  THEN [puts[k] EXCEPT !.state = IF responseOk THEN "ok" ELSE "failed"]
                  ELSE puts[k]]
  /\ IF UploadAccepted(responseOk)
       THEN /\ upload' = [upload EXCEPT ![u].state = "done"]
            /\ cmpc' = IF cmpc = "upload" /\ \A o \in Snapshots \ {u} : upload[o].state = "done"
                         THEN "sha" ELSE cmpc
            /\ UNCHANGED commitResult
       ELSE UploadFails(u)
  /\ UNCHANGED <<batch, entryChanges, assetChanges, assetMode, cursor, applied, failedAt, signs,
                 repository, tableVars, entryVars, assetVars, calls>>
  /\ UNCHANGED <<engineVars, credVars, loadVars, pathResult>>

\* generateSha and the result, lines 397-420.
CommitFinish(ok) ==
  /\ cmpc = "sha"
  /\ IF ok
       THEN /\ cmpc' = "done"
            /\ commitResult' = [kind |-> "value", stage |-> "done"]
       ELSE CommitFails("sha")
  /\ UNCHANGED <<batch, entryChanges, assetChanges, assetMode, cursor, applied, failedAt, puts, signs,
                 upload, repository, tableVars, entryVars, assetVars, calls>>
  /\ UNCHANGED <<engineVars, credVars, loadVars, pathResult>>

NextCommit ==
  \/ \E backend \in BackendConfigs : init(backend)
  \/ configureProxy("https://proxy", "s3")
  \/ setSessionToken("jwt")
  \/ initializeSchema
  \/ initializeAssetsTable
  \/ \E changes \in Batches, connected \in BOOLEAN : commitChanges(changes, connected)
  \/ \E failure \in ChangeFailures : EntryChangeStep(failure)
  \/ \E status \in Statuses, responseOk \in BOOLEAN, ok \in BOOLEAN :
       AssetChangeStep(status, responseOk, ok)
  \/ \E ok \in BOOLEAN : ExportEntries(ok)
  \/ \E ok \in BOOLEAN : ExportAssets(ok)
  \/ \E u \in Snapshots, status \in Statuses : UploadSigned(u, status)
  \/ \E u \in Snapshots, responseOk \in BOOLEAN : UploadPut(u, responseOk)
  \/ \E ok \in BOOLEAN : CommitFinish(ok)

\* A session of the application: fetchFiles creates the schema and loads the
\* published snapshots, and once it is through the user commits one change.
NextPublish ==
  \/ \E backend \in BackendConfigs : cmpc = "idle" /\ init(backend)
  \/ cmpc = "idle" /\ configureProxy("https://proxy", "s3")
  \/ cmpc = "idle" /\ setSessionToken("jwt")
  \/ cmpc = "idle" /\ initializeSchema
  \/ \E p \in Procs, t \in Tables, exists \in BOOLEAN :
       cmpc = "idle" /\ entriesTable /\ loadSnapshot(p, t, exists)
  \/ \E p \in Procs, ok \in BOOLEAN : LoadSchemaDone(p, ok)
  \/ \E p \in Procs, ok \in BOOLEAN : LoadDeleteDone(p, ok)
  \/ \E p \in Procs, ok \in BOOLEAN : LoadInsertDone(p, ok)
  \/ \E c \in ChangeShapes :
       (\A p \in Procs : lpc[p] = "idle") /\ cmpc = "idle" /\ commitChanges(<<c>>, TRUE)
  \/ \E failure \in ChangeFailures : EntryChangeStep(failure)
  \/ \E status \in Statuses, responseOk \in BOOLEAN, ok \in BOOLEAN :
       AssetChangeStep(status, responseOk, ok)
  \/ \E ok \in BOOLEAN : ExportEntries(ok)
  \/ \E ok \in BOOLEAN : ExportAssets(ok)
  \/ \E u \in Snapshots, status \in Statuses : UploadSigned(u, status)
  \/ \E u \in Snapshots, responseOk \in BOOLEAN : UploadPut(u, responseOk)
  \/ \E ok \in BOOLEAN : CommitFinish(ok)

(***************************************************************************)
(* auth.js: signOut, and repository.js: resetRepository.                   *)
(***************************************************************************)
SignOutPcs == {"s_conn", "s_db"}

\* resetRepository, repository.js lines 43-65: every field back to the value
\* it is declared with.
resetRepository == repository' = DefaultRepository

\* signOut lines 264-270, run in the same turn in which closeDuckDB returns:
\* clearCredentials() and resetRepository().
SignOutCleanup ==
  /\ ClearEffect
  /\ resetRepository
  /\ outcome' = Outcome([NoRequest EXCEPT !.fn = "clearCredentials"], "value", "", 0,
                        FALSE, Cardinality(DOMAIN cacheUrls))

\* What signOut leaves alone while closeDuckDB is still awaiting.
SignOutPending ==
  UNCHANGED <<sessionToken, cacheUrls, cacheExpiry, outcome, repository>>

\* closeDuckDB lines 417-443 as run for signOut: await db.terminate(), or the
\* synchronous rest followed by the cleanup.
SignOutFromDb(p) ==
  IF db # 0
    THEN /\ pc' = [pc EXCEPT ![p] = "s_db"]
         /\ UNCHANGED <<worker, extensionsLoaded, result, terminated>>
         /\ SignOutPending
    ELSE /\ CloseTail(p)
         /\ SignOutCleanup

\* signOut, auth.js lines 256-288.  closeDuckDB catches the failure of each
\* of its steps, so the catch branch (lines 273-287) is never entered.
signOut(p) ==
  /\ pc[p] = "idle"
  /\ calls < MaxCalls
  /\ calls' = calls + 1
  /\ op' = [op EXCEPT ![p] = "signOut"]
  /\ CloseBookkeeping(p)
  /\ IF conn # 0
       THEN /\ pc' = [pc EXCEPT ![p] = "s_conn"]
            /\ handle' = [handle EXCEPT ![p] = conn]
            /\ UNCHANGED <<worker, extensionsLoaded, result, terminated>>
            /\ SignOutPending
       ELSE /\ SignOutFromDb(p)
            /\ UNCHANGED handle
  /\ UNCHANGED <<db, conn, isInitializing, nested, extIdx, connDb, connClosed,
                 nextInst, nextConn, lastInit>>
  /\ UNCHANGED <<proxyUrl, provider, now, cpc, creq, fetchCount, authFailed>>
  /\ UNCHANGED <<tableVars, entryVars, assetVars, commitVars, loadVars, pathResult>>

\* conn.close() of the sign-out settles (resolved or rejected).
SignOutConnDone(p, ok) ==
  /\ pc[p] = "s_conn"
  /\ CloseBookkeeping(p)
  /\ connClosed' = IF ok THEN connClosed \cup {handle[p]} ELSE connClosed
  /\ conn' = 0
  /\ SignOutFromDb(p)
  /\ UNCHANGED <<calls, op, db, isInitializing, nested, handle, extIdx, connDb, nextInst,
                 nextConn, lastInit>>
  /\ UNCHANGED <<proxyUrl, provider, now, cpc, creq, fetchCount, authFailed>>
  /\ UNCHANGED <<tableVars, entryVars, assetVars, commitVars, loadVars, pathResult>>

\* db.terminate() of the sign-out settles (resolved or rejected); the rest of
\* closeDuckDB and the cleanup of signOut run in the same turn.
SignOutDbDone(p, ok) ==
  /\ pc[p] = "s_db"
  /\ CloseBookkeeping(p)
  /\ db' = 0
  /\ CloseTail(p)
  /\ SignOutCleanup
  /\ UNCHANGED <<calls, op, conn, isInitializing, nested, handle, extIdx, connDb, connClosed,
                 nextInst, nextConn, lastInit>>
  /\ UNCHANGED <<proxyUrl, provider, now, cpc, creq, fetchCount, authFailed>>
  /\ UNCHANGED <<tableVars, entryVars, assetVars, commitVars, loadVars, pathResult>>

\* A session: the backend is configured, the user is signed in, the engine is
\* started and used, URLs are signed, and the user signs out.
NextAuth ==
  \/ \E backend \in BackendConfigs : init(backend)
  \/ configureProxy("https://proxy", "s3")
  \/ setSessionToken("jwt")
  \/ \E p \in Procs : getPresignedUrl(p, "p", "GET")
  \/ \E p \in Procs, status \in {200, 401} :
       \E expiresIn \in GrantedFor(status) : PresignResponse(p, status, expiresIn)
  \/ \E p \in Procs :
       \/ initDuckDB(p)
       \/ InitPoll(p)
       \/ \E ok \in BOOLEAN : InitBundleDone(p, ok)
       \/ \E how \in {"ok", "fetchFailed", "constructFailed"} : InitWorkerDone(p, how)
       \/ \E ok \in BOOLEAN : InitInstantiateDone(p, ok)
       \/ getConnection(p)
       \/ \E ok \in BOOLEAN : ConnectDone(p, ok)
       \/ \E ok \in BOOLEAN : InstallDone(p, ok)
       \/ \E ok \in BOOLEAN : LoadDone(p, ok)
       \/ \E ok \in BOOLEAN : ConfigDone(p, ok)
       \/ signOut(p)
       \/ \E ok \in BOOLEAN : SignOutConnDone(p, ok)
       \/ \E ok \in BOOLEAN : SignOutDbDone(p, ok)
(***************************************************************************)
(* Specifications: the same initial state, one next-state relation per     *)
(* component.                                                              *)
(***************************************************************************)
Init ==
  /\ calls = 0
  /\ InitEngine /\ InitCred
  /\ InitRepository /\ InitTables /\ InitEntries /\ InitAssets /\ InitCommit
  /\ InitLoad /\ InitPath

SpecEngine == Init /\ [][NextEngine]_vars

SpecCred == Init /\ [][NextCred]_vars

SpecEntry == Init /\ [][NextEntry]_vars

SpecAsset == Init /\ [][NextAsset]_vars

SpecCommit == Init /\ [][NextCommit]_vars


SpecAuth == Init /\ [][NextAuth]_vars

SpecSnapshot == Init /\ [][NextSnapshot]_vars

SpecPath == Init /\ [][NextPath]_vars

SpecCount == Init /\ [][NextCount]_vars

\* The timer of the wait loop of initDuckDB fires: a waiting caller polls
\* again as long as it waits.
SpecEngineFair == SpecEngine /\ \A p \in Procs : WF_vars(InitPoll(p))

\* mapRowsToEntry on its own.
SpecRows == Init /\ [][NextRows]_vars

\* fetchFiles followed by a commit.
SpecPublish == Init /\ [][NextPublish]_vars
(***************************************************************************)
(* Properties of the engine lifecycle.                                     *)
(***************************************************************************)

\* C1 (as stated): with no close() in between, every init() call that returns
\* successfully returns the same engine instance, and at most one engine
\* instantiation is ever started.
C1_OneInstantiationEver ==
  /\ epochStarts <= 1
  /\ Cardinality(epochReturns) <= 1

\* C1 (amended): at most one instantiation is in flight at any time, one is
\* in its pre-construction phase only while no instance is retained, and the
\* init() calls that return successfully with neither a close() nor a failed
\* initialization in between all return the same instance.
C1_OneInstancePerRun ==
  /\ Cardinality({p \in Procs : pc[p] \in StartedPcs}) <= 1
  /\ \A p \in Procs : pc[p] \in {"i_import", "i_worker"} => db = 0
  /\ Cardinality(runReturns) <= 1

\* Two init() calls have returned the same instance, one of them after having
\* waited for (or found) the other's initialization.
C1_Witness ==
  /\ \A p \in Procs : pc[p] = "idle" /\ op[p] = "init" /\ ~crossed[p]
  /\ result[1].kind = "value" /\ result[1].val # 0
  /\ result[2] = result[1]
  /\ epochStarts = 1

\* C2 (as stated): with no close() in between, at most one connection is ever
\* opened on an engine instance and every successful getConnection() caller
\* receives that same connection.
C2_OneConnection ==
  /\ \A c1, c2 \in epochConns : connDb[c1] = connDb[c2] => c1 = c2
  /\ \A c1, c2 \in epochConnReturns : connDb[c1] = connDb[c2] => c1 = c2

(***************************************************************************)
(* Properties of the credential cache.                                     *)
(***************************************************************************)

\* C3 (as stated): a getPresignedUrl GET call for a path made while the path
\* is cached and the cache is inside its expiry-minus-60s window issues no
\* request (so two calls cost one request), any other GET call issues one;
\* every PUT or DELETE call issues its own request, and neither the call nor
\* its answer changes the cached urls or the cache expiry.
C3_WritesLeaveCacheUntouched ==
  [][ /\ (/\ calls' = calls + 1
          /\ outcome'.req.fn = "getPresignedUrl"
          /\ outcome'.req.path # ""
          /\ proxyUrl # "" /\ sessionToken # "")
         => /\ fetchCount' = fetchCount +
                 (IF /\ outcome'.req.operation = "GET"
                     /\ outcome'.req.path \in DOMAIN cacheUrls
                     /\ cacheExpiry > now + REFRESH_BUFFER_MS
                    THEN 0 ELSE 1)
            /\ outcome'.req.operation # "GET" =>
                 cacheUrls' = cacheUrls /\ cacheExpiry' = cacheExpiry
      /\ \A p \in Procs :
           (/\ cpc[p] = "presign" /\ cpc'[p] = "idle"
            /\ creq[p].operation # "GET")
           => cacheUrls' = cacheUrls /\ cacheExpiry' = cacheExpiry
    ]_vars

\* C3 (amended): as above for the calls; the answer to a PUT or DELETE
\* request leaves the cached urls and the expiry unchanged unless its status
\* is 401 or 403, in which case the cache is emptied and the expiry is 0.
C3_WritesNeverCached ==
  [][ /\ (/\ calls' = calls + 1
          /\ outcome'.req.fn = "getPresignedUrl"
          /\ outcome'.req.path # ""
          /\ proxyUrl # "" /\ sessionToken # "")
         => /\ fetchCount' = fetchCount +
                 (IF /\ outcome'.req.operation = "GET"
                     /\ outcome'.req.path \in DOMAIN cacheUrls
                     /\ cacheExpiry > now + REFRESH_BUFFER_MS
                    THEN 0 ELSE 1)
            /\ outcome'.req.operation # "GET" =>
                 cacheUrls' = cacheUrls /\ cacheExpiry' = cacheExpiry
      /\ \A p \in Procs :
           (/\ cpc[p] = "presign" /\ cpc'[p] = "idle"
            /\ creq[p].operation # "GET")
           => IF outcome'.status \in {401, 403}
                THEN cacheUrls' = EmptyMap /\ cacheExpiry' = 0
                ELSE cacheUrls' = cacheUrls /\ cacheExpiry' = cacheExpiry
    ]_vars

\* Two GET calls for the same path have been made, the second was answered
\* from the cache, and one request went out in all.
C3_Witness ==
  /\ calls = 2 /\ fetchCount = 1
  /\ outcome.req.fn = "getPresignedUrl" /\ outcome.req.operation = "GET"
  /\ outcome.cached /\ outcome.kind = "value"
  /\ outcome.val.path = outcome.req.path /\ outcome.val.operation = "GET"

\* C4 (as stated): an answer with status 401 or 403 makes the call fail with
\* the authentication error with the token unset and the cache empty
\* (size 0, expiry 0), and the next signing call (valid arguments, no token
\* set in between) fails as not authenticated without issuing a request.
C4_AuthFailureClosesSession ==
  [][ /\ \A p \in Procs :
           (/\ cpc[p] # "idle" /\ cpc'[p] = "idle"
            /\ outcome'.status \in {401, 403})
           => /\ outcome'.kind = "error" /\ outcome'.val = "AuthenticationFailed"
              /\ sessionToken' = ""
              /\ cacheUrls' = EmptyMap /\ cacheExpiry' = 0
      /\ (/\ calls' = calls + 1
          /\ authFailed
          /\ \/ outcome'.req.fn = "getPresignedUrl" /\ outcome'.req.path # ""
             \/ /\ outcome'.req.fn = "fetchPresignedUrls"
                /\ \E i \in DOMAIN outcome'.req.paths : outcome'.req.paths[i] # "")
         => /\ outcome'.kind = "error" /\ outcome'.val = "NotAuthenticated"
            /\ fetchCount' = fetchCount
    ]_vars

\* C5 (as stated): a signing call serves a path from the cache only while
\* now < (expiry of that path's own URL) - 60 s.
C5_ServedBeforeOwnExpiry ==
  [][ calls' = calls + 1 =>
        /\ (outcome'.req.fn = "getPresignedUrl" /\ outcome'.cached)
             => now < outcome'.val.expiresAt - REFRESH_BUFFER_MS
        /\ outcome'.req.fn = "fetchPresignedUrls" /\ outcome'.kind \in {"value", "pending"}
             => \A i \in DOMAIN outcome'.req.paths :
                  LET x == outcome'.req.paths[i] IN
                  (/\ x # ""
                   /\ \A j \in DOMAIN outcome'.req.toFetch : outcome'.req.toFetch[j] # x
                   /\ x \in DOMAIN cacheUrls)
                  => now < cacheUrls[x].expiresAt - REFRESH_BUFFER_MS
    ]_vars

(***************************************************************************)
(* Properties of the commit pipeline and of the stores.                    *)
(***************************************************************************)

\* C6 (as stated): in a commit that succeeded, the entry-changes and the
\* asset-changes partition the batch and every change of the batch was
\* applied as exactly one storage mutation.
C6_EveryChangeAppliedOnce ==
  cmpc = "done" =>
    \A i \in DOMAIN batch :
      /\ (\E k \in DOMAIN entryChanges : entryChanges[k] = i)
           # (\E k \in DOMAIN assetChanges : assetChanges[k] = i)
      /\ Cardinality({k \in DOMAIN applied : applied[k].change = i}) = 1

\* C7: the commit gets past the uploads (and returns a result) only if both
\* snapshot uploads succeeded, each PUT through the URL of its own signing
\* request; if an upload fails, the commit fails and has no result.
C7_ResultOnlyAfterBothUploads ==
  /\ cmpc \in {"sha", "done"} =>
       \A u \in Snapshots :
         /\ upload[u].state = "done"
         /\ upload[u].url \in 1..signs
         /\ \E k \in DOMAIN puts :
              puts[k] = PutRequest("snapshot", upload[u].path, upload[u].url, "ok")
  /\ \A j, k \in DOMAIN puts : j # k => puts[j].url # puts[k].url
  /\ commitResult.kind = "value" <=> cmpc = "done"
  /\ (\E u \in Snapshots : upload[u].state = "failed") =>
       cmpc = "failed" /\ commitResult.kind = "error"

\* A commit of at least one change returned a result after two snapshot PUTs.
C7_Witness ==
  /\ cmpc = "done" /\ commitResult.kind = "value"
  /\ Len(batch) >= 1
  /\ \A u \in Snapshots : upload[u].state = "done"
  /\ Len(puts) >= 2

\* C8 (as stated): once applying a change has failed, the commit has failed
\* and it has issued no PUT to storage.
C8_NoPutAfterChangeFailure ==
  failedAt # 0 =>
    /\ cmpc = "failed" /\ commitResult.kind = "error"
    /\ puts = <<>>
    /\ \A u \in Snapshots : upload[u].state = "idle"

\* C8 (amended): once applying a change has failed, the commit has failed
\* and no snapshot upload was started: no signing request and no PUT for a
\* snapshot.  (PUTs of external asset bytes may have been issued.)
C8_NoSnapshotUploadAfterChangeFailure ==
  failedAt # 0 =>
    /\ cmpc = "failed" /\ commitResult.kind = "error"
    /\ \A k \in DOMAIN puts : puts[k].kind # "snapshot"
    /\ \A u \in Snapshots : upload[u].state = "idle"

\* A change failed after the raw bytes of an external asset had been PUT.
C8_Witness ==
  /\ failedAt # 0 /\ cmpc = "failed"
  /\ \E k \in DOMAIN puts : puts[k].kind = "asset"

\* C9 (as stated): after an upsert of an Entry into the empty table, fetchAll
\* returns exactly one Entry, whose locales are those of the upserted Entry
\* with the content that was upserted.
C9_UpsertFetchRoundTrip ==
  (/\ entryResult.fn = "fetchAllEntries" /\ entryResult.kind = "value"
   /\ tracked # NoEntry)
  => /\ Len(entryResult.val) = 1
     /\ DOMAIN entryResult.val[1].locales
          = {tracked.locales[i].locale : i \in DOMAIN tracked.locales}
     /\ \A i \in DOMAIN tracked.locales :
          entryResult.val[1].locales[tracked.locales[i].locale].content
            = tracked.locales[i].content

\* C10: a row written by insertAsset is inline (content set, no storage URL)
\* exactly when the asset mode was inline and content was supplied with a
\* length at or below the threshold; otherwise it is external with a storage
\* URL and no inline bytes.
C10_InlineExactlyWhen ==
  (assetResult.fn = "insertAsset" /\ assetResult.kind = "value") =>
    LET args == assetResult.val
        row == assetResult.val.row
    IN /\ row \in assets
       /\ IF /\ args.assetMode = "inline"
             /\ args.content.supplied
             /\ args.content.length <= args.threshold
            THEN /\ row.storage_mode = "inline"
                 /\ row.content = args.content
                 /\ row.storage_url = Null
            ELSE /\ row.storage_mode = "external"
                 /\ row.storage_url \notin {Null, <<>>}
                 /\ ~row.content.supplied

\* In inline mode, content longer than the threshold was recorded as an
\* external reference.
C10_Witness ==
  /\ assetResult.fn = "insertAsset" /\ assetResult.kind = "value"
  /\ assetResult.val.assetMode = "inline"
  /\ assetResult.val.content.supplied
  /\ assetResult.val.content.length > assetResult.val.threshold
  /\ assetResult.val.row.storage_mode = "external"

(***************************************************************************)
(* Further properties of the stores, the credential cache and the engine.  *)
(***************************************************************************)

\* C11: after any sequence of insertAsset, updateAsset and deleteAsset calls,
\* every row of the assets table has exactly one of inline content and
\* storage URL set, the one its storage mode names.
C11_ExactlyOneStorage ==
  \A r \in assets :
    /\ r.content.supplied # (r.storage_url # Null)
    /\ r.storage_mode = "inline" <=> r.content.supplied
    /\ r.storage_mode = "external" <=> r.storage_url # Null

\* An update has switched a row to the URL it was given, next to a row that
\* holds inline content.
C11_Witness ==
  /\ assetResult.fn = "updateAsset" /\ assetResult.kind = "value"
  /\ \E r \in assets : r.storage_mode = "external" /\ r.storage_url = <<"blob:2">>
  /\ \E r \in assets : r.storage_mode = "inline"

\* C12 (as stated): a signing call with valid arguments made while no proxy
\* is configured fails with the configuration error, and one made while
\* configured but without a session token fails with the authentication
\* error; in both cases no request is issued and no value is returned.
C12_UnreadySigningFails ==
  [][(/\ calls' = calls + 1
      /\ \/ outcome'.req.fn = "getPresignedUrl" /\ outcome'.req.path # ""
         \/ outcome'.req.fn = "fetchPresignedUrls"
              /\ Len(ValidPaths(outcome'.req.paths)) > 0
      /\ ProxyPrecheck # "")
     => /\ outcome'.kind = "error"
        /\ outcome'.val = ProxyPrecheck
        /\ fetchCount' = fetchCount]_vars

\* C13 (as stated): clearCredentials() called on the authenticated cache
\* (proxy configured, session token set) returns it to Unconfigured: a
\* signing call made next fails the proxy check with the configuration error.
C13_ClearReturnsToUnconfigured ==
  [][(/\ proxyUrl # "" /\ sessionToken # ""
      /\ outcome'.req.fn = "clearCredentials"
      /\ sessionToken' = "")
     => ProxyPrecheck' = "NotConfigured"]_vars

\* C14: whatever the state, a call of clearCredentials() (by the application
\* or on a 401/403 answer) leaves the session token unset and getCacheState()
\* reporting size 0 and expiresIn 0; called by the application on an empty
\* cache with no token it changes nothing of the credential state.
C14_ClearAlwaysEmpties ==
  [][(\/ outcome'.req.fn = "clearCredentials"
      \/ outcome'.kind = "error" /\ outcome'.val = "AuthenticationFailed")
     => /\ sessionToken' = ""
        /\ getCacheState'.size = 0
        /\ getCacheState'.expiresIn = 0
        /\ getCacheState'.expiry = 0
        /\ (/\ outcome'.req.fn = "clearCredentials"
            /\ sessionToken = "" /\ cacheUrls = EmptyMap /\ cacheExpiry = 0)
           => UNCHANGED <<proxyUrl, provider, sessionToken, cacheUrls, cacheExpiry,
                          cpc, creq, fetchCount>>]_vars

\* clearCredentials() has just wiped a token and a cache that held a URL.
C14_Witness ==
  /\ outcome.req.fn = "clearCredentials"
  /\ outcome.wiped >= 1
  /\ sessionToken = "" /\ cacheUrls = EmptyMap /\ cacheExpiry = 0

\* C15 (as stated): fetchPresignedUrls(paths) drops the empty items and fails
\* with a validation error when nothing remains; otherwise it asks the
\* service for exactly the remaining paths that are not validly cached (and
\* sends nothing when all are), and the map it returns has exactly the
\* remaining paths as keys, each mapped to a URL.
C15_BatchReturnsEveryPath ==
  [][LET req == outcome'.req
         remaining == {req.paths[i] : i \in {j \in DOMAIN req.paths : req.paths[j] # ""}}
         uncached == {k \in remaining :
                        ~(cacheExpiry > now + REFRESH_BUFFER_MS /\ k \in DOMAIN cacheUrls)}
         Complete(map) == DOMAIN map = remaining /\ \A k \in remaining : map[k] # NoUrl
     IN /\ (calls' = calls + 1 /\ req.fn = "fetchPresignedUrls")
           => IF remaining = {}
                THEN outcome'.kind = "error" /\ fetchCount' = fetchCount
              ELSE IF uncached = {}
                THEN /\ outcome'.kind = "value" /\ Complete(outcome'.val)
                     /\ fetchCount' = fetchCount
              ELSE IF fetchCount' # fetchCount
                THEN /\ fetchCount' = fetchCount + 1
                     /\ \E p \in Procs :
                          /\ cpc[p] = "idle" /\ cpc'[p] = "batch"
                          /\ {creq'[p].toFetch[i] : i \in DOMAIN creq'[p].toFetch} = uncached
              ELSE outcome'.kind = "error"
        /\ \A p \in Procs :
             (cpc[p] = "batch" /\ cpc'[p] = "idle" /\ outcome'.kind = "value")
             => Complete(outcome'.val)]_vars

\* C16: when an init() call fails (at bundle selection, worker creation,
\* engine construction or instantiation, or while waiting for another
\* initialization) it raises an error and leaves no instance, no worker and
\* no initialization in flight; every worker created so far has been
\* terminated, and the connection and the extensions flag are as before.
C16_FailedInitLeavesNothing ==
  [][\A p \in Procs :
       (/\ pc[p] \in InitPcs /\ pc'[p] = "idle"
        /\ result'[p].kind = "error"
        /\ result'[p].val \in {"InitFailed", "InitFailedWhileWaiting"})
       => /\ db' = 0 /\ worker' = 0 /\ ~isInitializing'
          /\ ~isDuckDBReady'
          /\ \A w \in 1..(nextInst' - 1) : w \in terminated'
          /\ conn' = conn /\ extensionsLoaded' = extensionsLoaded]_vars

\* The only call made was an init() that failed after it had created a
\* worker, which it terminated.
C16_Witness ==
  /\ calls = 1
  /\ \E p \in Procs : op[p] = "init" /\ pc[p] = "idle" /\ result[p] = Thrown("InitFailed")
  /\ terminated = {1}
  /\ db = 0 /\ worker = 0 /\ ~isInitializing

\* C17: when getConnection() fails while opening the connection, loading an
\* extension or applying the HEAD-request setting, it raises an error and
\* hasActiveConnection() is false afterwards; a getConnection() call made
\* while no connection is retained (on an initialized engine) opens a
\* connection, and every connection opened is a new one, never one that
\* was stored before.
C17_FailedConnectionIsDropped ==
  [][/\ \A p \in Procs :
          /\ (pc[p] \in ConnPcs /\ pc'[p] = "idle" /\ result'[p].kind = "error")
             => /\ result'[p].val = "ConnectionFailed"
                /\ conn' = 0 /\ ~hasActiveConnection'
          /\ (pc[p] = "g_connect" /\ pc'[p] \in ConnPcs \ {"g_connect"})
             => /\ Len(connDb') = Len(connDb) + 1
                /\ conn' = Len(connDb')
                /\ conn' # conn
     \* a call, and all calls so far are getConnection() calls
     /\ (/\ calls' = calls + 1
         /\ \A q \in Procs : op'[q] \in {"getConnection", "none"}
         /\ db # 0 /\ conn = 0)
        => \E p \in Procs : pc[p] = "idle" /\ pc'[p] = "g_connect"]_vars

\* One caller made two getConnection() calls: the first stored a connection
\* and then failed, the second opened another connection and returned it.
C17_Witness ==
  /\ calls = 2 /\ Len(connDb) = 2 /\ conn = 2
  /\ \E p \in Procs :
       /\ op[p] = "getConnection" /\ pc[p] = "idle" /\ result[p] = Returned(2)
       /\ \A q \in Procs \ {p} : op[q] = "none"

\* C18 (as stated): close() never raises, and whatever steps of it fail, when
\* it returns the connection, the instance and the worker are unset, the
\* extensions flag is false, and isDuckDBReady() and hasActiveConnection()
\* are both false.
C18_CloseLeavesNothing ==
  [][\A p \in Procs :
       (/\ op'[p] = "close" /\ pc'[p] = "idle"
        /\ \/ pc[p] \in ClosePcs
           \/ pc[p] = "idle" /\ op[p] # "close" /\ calls' = calls + 1)
       => /\ result'[p] = Returned(0)
          /\ conn' = 0 /\ db' = 0 /\ worker' = 0
          /\ ~extensionsLoaded'
          /\ ~isDuckDBReady' /\ ~hasActiveConnection']_vars

\* C19 (as stated): between engine start and the next close(), each required
\* extension is installed and loaded at most once by the getConnection()
\* calls made in that period, and once the loaded flag is set no further
\* install/load query is issued.
C19_ExtensionsLoadedOnce ==
  [][/\ \A k \in DOMAIN extCount' : extCount'[k] <= 1
     /\ extensionsLoaded => \A k \in DOMAIN extCount : extCount'[k] <= extCount[k]]_vars


\* C20: whenever signOut returns (after the awaited close steps, or in the
\* same turn when there is neither a connection nor an instance to close),
\* the engine is closed (no instance, no connection), the session token is
\* unset, the URL cache is empty and the repository configuration is back to
\* its defaults.
C20_SignOutCleansEverything ==
  [][\A p \in Procs :
       (/\ op'[p] = "signOut"
        /\ pc'[p] = "idle"
        /\ \/ pc[p] \in SignOutPcs
           \/ /\ pc[p] = "idle" /\ pc' = pc /\ calls' = calls + 1
              /\ db = 0 /\ conn = 0
              /\ outcome'.req.fn # "getPresignedUrl")
       => /\ db' = 0 /\ conn' = 0
          /\ sessionToken' = "" /\ cacheUrls' = EmptyMap /\ cacheExpiry' = 0
          /\ repository' = DefaultRepository]_vars

(***************************************************************************)
(* Asset store, continued.                                                 *)
(***************************************************************************)

\* C21: an insert in inline mode with content longer than the threshold
\* still stores the content inline; an insert in external mode with content
\* longer than the threshold stores no inline bytes and records a storage URL.
C21_ModeDecidesOverThreshold ==
  (/\ assetResult.fn = "insertAsset" /\ assetResult.kind = "value"
   /\ assetResult.val.content.supplied
   /\ assetResult.val.content.length > assetResult.val.threshold) =>
    LET row == assetResult.val.row IN
      /\ assetResult.val.assetMode = "inline" =>
           /\ row.storage_mode = "inline"
           /\ row.content = assetResult.val.content
      /\ assetResult.val.assetMode = "external" =>
           /\ row.storage_mode = "external"
           /\ ~row.content.supplied
           /\ row.storage_url # Null

\* C22: after any sequence of inserts and updates, every row in inline mode
\* holds content no longer than the inline threshold.
C22_InlineContentWithinThreshold ==
  \A r \in assets :
    r.storage_mode = "inline" => r.content.length <= DEFAULT_INLINE_THRESHOLD

\* C23: updateAsset called with no changed field, no content and no URL
\* sends no statement to the engine and leaves the assets table unchanged.
C23_EmptyUpdateIssuesNoQuery ==
  [][(/\ assetResult'.fn = "updateAsset"
      /\ calls' = calls + 1
      /\ assetResult'.val.updates.name = <<>>
      /\ assetResult'.val.updates.path = <<>>
      /\ assetResult'.val.updates.size = NoSize
      /\ assetResult'.val.updates.blobURL = <<>>
      /\ ~assetResult'.val.content.supplied)
     => /\ assetResult'.val.queries = 0
        /\ assets' = assets]_vars

(***************************************************************************)
(* Snapshots.                                                              *)
(***************************************************************************)

\* C24: when a load from a snapshot returns successfully, the table holds
\* exactly the rows of the snapshot and none of the rows it held before; in
\* particular a load of the snapshot last exported restores the exported rows.
C24_LoadReplacesTable ==
  [][\A p \in Procs :
       (lpc[p] = "l_insert" /\ lpc'[p] = "idle" /\ loadResult'[p].kind = "value")
       => IF lreq[p].table = "entries"
            THEN entries' = lreq[p].file.rows
            ELSE assets' = lreq[p].file.rows]_vars

(***************************************************************************)
(* Storage paths.                                                          *)
(***************************************************************************)
IsSeparator(token) == token = "/"
Names(path) == SelectSeq(path, LAMBDA token : ~IsSeparator(token))

\* C25: the full storage path starts with the bucket and has no trailing
\* separator; with bucket b, empty prefix and dataPath d, the path of '' is
\* b/d and the path of r is b/d/r.
C25_PathStartsWithBucket ==
  LET c == pathResult.config
      r == pathResult.relativePath
  IN (pathResult.asked /\ c.bucket = <<"my-bucket">> /\ c.pathPrefix = <<>>
      /\ c.dataPath = <<"cms", "/", "data">> /\ r \in {<<>>, <<"entries.parquet">>})
     => pathResult.path =
          c.bucket \o <<"/">> \o c.dataPath \o (IF r = <<>> THEN <<>> ELSE <<"/">> \o r)

C27_CountsDegradeToZero ==
  /\ (entryResult.fn = "getEntryCount" /\ entryResult.val.failed) =>
       entryResult.kind = "value" /\ entryResult.val.count = 0
  /\ (assetResult.fn = "getAssetCountByKind" /\ assetResult.val.failed) =>
       /\ assetResult.kind = "value"
       /\ \A k \in DOMAIN assetResult.val.count : assetResult.val.count[k] = 0
  /\ (assetResult.fn = "getTableStats" /\ assetResult.val.failed) =>
       /\ assetResult.kind = "value"
       /\ assetResult.val.count = [entries |-> 0, assets |-> 0]

(***************************************************************************)
(* Engine lifecycle: callers that wait for an initialization in flight.    *)
(***************************************************************************)

\* The call of p leaves the wait loop with the instance (a nested call goes
\* on in getConnection), or with the lifecycle error.
WaiterGetsInstance(p) ==
  IF nested[p]
    THEN ~(pc'[p] = "idle" /\ result'[p] = Thrown("InitFailedWhileWaiting"))
    ELSE pc'[p] = "idle" /\ result'[p] = Returned(lastInit.val)
WaiterFails(p) ==
  pc'[p] = "idle" /\ result'[p] = Thrown("InitFailedWhileWaiting")

\* While an initialization is in flight no caller starts an instantiation.
NoSecondInstantiation ==
  \A p \in Procs : (isInitializing /\ pc[p] \notin StartedPcs) => pc'[p] \notin StartedPcs

\* A waiting caller that can leave the wait loop does leave it, unless a new
\* initialization is started first.
WaiterTerminates ==
  \A p \in Procs :
    (pc[p] = "i_wait" /\ ~isInitializing) ~> (pc[p] # "i_wait" \/ isInitializing)

\* C28 (as stated): a caller of init() that finds an initialization in flight
\* never starts an instantiation itself; it leaves the wait only once no
\* initialization is in flight, and then returns the instance if the
\* initialization that ended last succeeded and fails with the lifecycle
\* error if it failed; and it does leave the wait.
C28_WaiterFollowsInit ==
  /\ [][/\ NoSecondInstantiation
        /\ \A p \in Procs :
             (pc[p] = "i_wait" /\ pc'[p] # "i_wait") =>
               /\ ~isInitializing
               /\ (lastInit.kind = "value" /\ lastInit.val # 0) => WaiterGetsInstance(p)
               /\ lastInit.kind = "error" => WaiterFails(p)]_vars
  /\ WaiterTerminates

\* C28 (amended): the same, the outcome being promised only to a caller
\* during whose wait close() was not called.
C28_WaiterFollowsInitUnlessClosed ==
  /\ [][/\ NoSecondInstantiation
        /\ \A p \in Procs :
             (pc[p] = "i_wait" /\ pc'[p] # "i_wait") =>
               /\ ~isInitializing
               /\ (~crossed[p] /\ lastInit.kind = "value" /\ lastInit.val # 0)
                    => WaiterGetsInstance(p)
               /\ (~crossed[p] /\ lastInit.kind = "error") => WaiterFails(p)]_vars
  /\ WaiterTerminates

\* A caller of init() has waited for an initialization that failed, with no
\* close() in between, and has failed itself with the lifecycle error.
C28_Witness ==
  \E p \in Procs :
    /\ pc[p] = "idle" /\ op[p] = "init" /\ ~crossed[p]
    /\ result[p] = Thrown("InitFailedWhileWaiting")
    /\ lastInit = Thrown("InitFailed")
    /\ ~isInitializing /\ db = 0

(***************************************************************************)
(* Commit: the order of the stages.                                        *)
(***************************************************************************)

\* The stage after `stage` for a commit that has not failed (a commit starts
\* when none is running): the change loops are left out when they have no
\* change to process.
StageAfter(stage) ==
  IF stage \in {"idle", "done", "failed"}
    THEN IF Len(entryChanges') > 0 THEN "entries"
         ELSE IF Len(assetChanges') > 0 THEN "assets" ELSE "exportEntries"
  ELSE IF stage = "entries"
    THEN IF Len(assetChanges) > 0 THEN "assets" ELSE "exportEntries"
  ELSE IF stage = "assets" THEN "exportEntries"
  ELSE IF stage = "exportEntries" THEN "exportAssets"
  ELSE IF stage = "exportAssets" THEN "upload"
  ELSE IF stage = "upload" THEN "sha"
  ELSE "done"

\* The mutations of this step, as recorded by the commit.
MutatedTables ==
  IF Len(applied') > Len(applied) THEN {applied'[Len(applied')].table} ELSE {}

\* C29: within one commit the stages run in a fixed order: every entry change
\* is processed in the entries stage and every asset change in the assets
\* stage after it, then the entries are exported, then the assets; a snapshot
\* upload starts only in the step that completes the second export, and the
\* commit identifier is computed only once both uploads have succeeded.
C29_StagesInOrder ==
  [][/\ (cmpc' # cmpc /\ cmpc' # "failed") => cmpc' = StageAfter(cmpc)
     /\ (cmpc = "entries" /\ cmpc' \notin {"entries", "failed"})
          => cursor = Len(entryChanges)
     /\ (cmpc = "assets" /\ cmpc' \notin {"assets", "failed"})
          => cursor = Len(assetChanges)
     /\ "entries" \in MutatedTables => cmpc = "entries"
     /\ "assets" \in MutatedTables => cmpc = "assets"
     /\ \A u \in Snapshots :
          (upload[u].state = "idle" /\ upload'[u].state \in {"sign", "put", "done"})
            => cmpc = "exportAssets" /\ cmpc' = "upload"
     /\ (\E k \in DOMAIN puts' : k \notin DOMAIN puts /\ puts'[k].kind = "snapshot")
          => cmpc \in {"upload", "failed"}
     /\ (cmpc' = "sha" /\ cmpc # "sha")
          => \A u \in Snapshots : upload'[u].state = "done"
     /\ (commitResult'.kind = "value" /\ commitResult.kind # "value") => cmpc = "sha"]_vars

\* A commit of an entry change and an asset change has mutated both tables,
\* exported and uploaded both snapshots, and returned its identifier.
C29_Witness ==
  /\ cmpc = "done" /\ commitResult.kind = "value"
  /\ Len(entryChanges) > 0 /\ Len(assetChanges) > 0
  /\ Len(applied) = 2 /\ applied[1].table = "entries" /\ applied[2].table = "assets"
  /\ \A u \in Snapshots : upload[u].state = "done"

(***************************************************************************)
(* Commit: large assets in external asset mode.                            *)
(***************************************************************************)

\* C30: for an asset create/update processed in external asset mode with
\* content over the inline threshold, a row is inserted only after the bytes
\* were accepted by a PUT through a URL signed for this upload, and the row
\* is external with the uploaded storage path as its reference; if the
\* upload fails no row is inserted and the commit fails.
C30_ExternalUploadThenRow ==
  [][(cmpc = "assets" /\ (cmpc' # cmpc \/ cursor' # cursor)) =>
       LET change == batch[assetChanges[cursor]]
           storagePath == getFullStoragePath(<<"assets", "/">> \o change.asset.path)
           newRows == assets' \ assets
           uploaded ==
             /\ signs' = signs + 1 /\ fetchCount' = fetchCount + 1
             /\ Len(puts') = Len(puts) + 1
             /\ puts'[Len(puts')] = PutRequest("asset", storagePath, signs', "ok")
       IN (/\ change.action \in {"create", "update"}
           /\ change.data.defined /\ change.data.length > DEFAULT_INLINE_THRESHOLD
           /\ AssetModeOfStage = "external")
            => /\ newRows # {} =>
                    /\ uploaded
                    /\ \A r \in newRows :
                         /\ r.id = change.asset.sha
                         /\ r.storage_mode = "external"
                         /\ r.storage_url = storagePath
                         /\ r.content = NoContent
               /\ ~uploaded =>
                    /\ assets' = assets
                    /\ cmpc' = "failed" /\ commitResult'.kind = "error"]_vars

\* A commit in external mode has uploaded a large asset and inserted its row
\* with the uploaded path as reference.
C30_Witness ==
  /\ cmpc \in {"exportEntries", "assets"}
  /\ \E r \in assets, k \in DOMAIN puts :
       /\ puts[k] = PutRequest("asset", r.storage_url, puts[k].url, "ok")
       /\ r.storage_mode = "external" /\ r.content = NoContent
       /\ r.storage_url = getFullStoragePath(<<"assets", "/">> \o r.path)

(***************************************************************************)
(* Entry store: what an upsert replaces.                                   *)
(***************************************************************************)

\* A row without its update time.
Timeless(rows) == {[r EXCEPT !.updated_at = 0] : r \in rows}

\* C31: a successful upsertEntry(entry) leaves exactly one row for each
\* locale of the entry, under the id derived for that locale (the entry id
\* for the default locale, the id followed by "_" and the locale otherwise)
\* and with the values of the entry; every row with another id is unchanged;
\* and upserting the same entry again leaves the same rows (apart from the
\* update time).
C31_UpsertReplacesLocaleRows ==
  [][(calls' = calls + 1 /\ entryResult'.fn = "upsertEntry" /\ entryResult'.kind = "value") =>
       \A entry \in EntryInputs :
         upsertEntry(entry, "posts", NoFailure) =>
           LET RowIdOf(loc) == IF loc.locale = "_default" THEN entry.id
                               ELSE entry.id \o <<"_", loc.locale>>
               ids == {RowIdOf(entry.locales[i]) : i \in DOMAIN entry.locales}
           IN /\ \A i \in DOMAIN entry.locales :
                   LET loc == entry.locales[i]
                       mine == {r \in entries' : r.id = RowIdOf(loc)}
                   IN /\ Cardinality(mine) = 1
                      /\ \A r \in mine :
                           /\ r.locale = loc.locale /\ r.collection = "posts"
                           /\ r.slug = loc.slug /\ r.path = loc.path
                           /\ JsonParse(r.data) = loc.content
                           /\ r.sha = entry.sha /\ r.updated_by = entry.commitAuthor
              /\ {r \in entries' : r.id \notin ids} = {r \in entries : r.id \notin ids}
              /\ LET again == UpsertRows(entries', entry, "posts", NoFailure, 1)
                 IN again.ok /\ Timeless(again.rows) = Timeless(entries')]_vars

\* An upsert of the default locale of an entry has replaced that row and
\* left the row of another locale, written by an earlier upsert, as it was.
C31_Witness ==
  /\ entryResult.fn = "upsertEntry" /\ entryResult.kind = "value"
  /\ \E r, o \in entries :
       /\ r.id = <<"post">> /\ r.locale = "_default"
       /\ JsonParse(r.data) = Content("_default", 2)
       /\ o.id = <<"post", "_", "fr">> /\ o.locale = "fr"
       /\ JsonParse(o.data) = Content("fr", 1)

(***************************************************************************)
(* Entry store: the commit metadata of a mapped Entry.                     *)
(***************************************************************************)

C33_NoTokenNoCachedUrl ==
  sessionToken = "" => (cacheUrls = EmptyMap /\ cacheExpiry = 0)

(***************************************************************************)
(* Snapshots: where a commit writes them and where a load reads them.      *)
(***************************************************************************)

\* C35 (as stated): under every repository configuration, the storage path a
\* commit uploads a snapshot to (getFullStoragePath of its file name) is the
\* path the next load reads that snapshot from (getDataPaths).
C35_UploadPathIsLoadPath ==
  \A u \in Snapshots : getFullStoragePath(<<u, ".parquet">>) = getDataPaths[u]

(***************************************************************************)
(* Snapshots: what a commit publishes after a load that read nothing.      *)
(***************************************************************************)

\* A load of every table has ended, whether it read the snapshot, skipped it
\* or failed.
LoadsEnded ==
  \A t \in Tables :
    \E p \in Procs : lpc[p] = "idle" /\ loadResult[p].kind # "none"
                     /\ loadResult[p].req.table = t

\* C34 (as stated): after a successful commit whose batch holds no delete and
\* no move, every record of the previously published snapshots is still in
\* the snapshots the commit published, also when the load before it skipped
\* or failed to read a snapshot.
C34_CommitKeepsPublishedRecords ==
  (/\ cmpc = "done" /\ commitResult.kind = "value"
   /\ LoadsEnded
   /\ \A i \in DOMAIN batch : batch[i].action \notin {"delete", "move"})
  => \A t \in Tables :
       /\ upload[t].state = "done"
       /\ \A r \in StoredFile(t).rows : \E kept \in upload[t].content : kept.id = r.id

(***************************************************************************)
(* Commit: where the bytes of a committed asset are.                       *)
(***************************************************************************)

\* C36 (as stated): after a successful commit, every asset row it wrote for
\* a create/update with content either holds the bytes inline or references
\* a location to which the bytes were uploaded.
C36_CommittedBytesAreStored ==
  (cmpc = "done" /\ commitResult.kind = "value") =>
    \A k \in DOMAIN applied :
      LET change == batch[applied[k].change] IN
      (/\ applied[k].table = "assets"
       /\ change.action \in {"create", "update"} /\ Truthy(change.data))
      => \E r \in upload["assets"].content :
           /\ r.id = change.asset.sha
           /\ \/ r.storage_mode = "inline" /\ r.content = Bytes(change.data.length)
              \/ /\ r.storage_mode = "external"
                 /\ \E u \in DOMAIN puts :
                      /\ puts[u].kind = "asset" /\ puts[u].state = "ok"
                      /\ puts[u].path = r.storage_url

(***************************************************************************)
(* Engine lifecycle: what init() and getConnection() hand out.             *)
(***************************************************************************)

\* C37 (as stated): an instance init() returns to a caller is one whose
\* instantiation has completed successfully: the initialization that ended
\* last succeeded with that instance.
C37_InitReturnsInstantiated ==
  [][\A p \in Procs :
       (/\ op'[p] = "init" /\ pc'[p] = "idle" /\ result'[p].kind = "value"
        /\ (initDuckDB(p) \/ InitPoll(p) \/ InitInstantiateDone(p, TRUE)))
       => lastInit' = Returned(result'[p].val)]_vars

\* C38 (as stated): a connection getConnection() returns is one on which no
\* call is still loading the extensions or applying the HEAD-request setting.
C38_ConnectionReturnedReady ==
  [][\A p \in Procs :
       (/\ op'[p] = "getConnection" /\ pc'[p] = "idle" /\ result'[p].kind = "value"
        /\ \/ getConnection(p) \/ InitPoll(p)
           \/ InitInstantiateDone(p, TRUE) \/ ConfigDone(p, TRUE))
       => \A q \in Procs :
            ~(pc'[q] \in {"g_install", "g_load", "g_config"}
              /\ handle'[q] = result'[p].val)]_vars

\* No init() and no close() is in flight.
EngineQuiet == \A q \in Procs : pc[q] \notin InitPcs \cup ClosePcs

\* C39: an instance is only ever held together with the worker it was
\* constructed on, and that worker has not been terminated; and once no
\* init() and no close() is in flight, either an instance and its live
\* worker are retained or neither an instance nor a worker is, also when
\* close() ran while an init() was in flight.
C39_InstanceOnLiveWorker ==
  /\ db # 0 => (worker = db /\ worker \notin terminated)
  /\ (EngineQuiet /\ db = 0) => worker = 0

\* close() ran while an init() call was in flight (before the worker was
\* created); both are through, and the instance the call returned is
\* retained on its worker, which is live.
C39_Witness ==
  /\ EngineQuiet
  /\ \E p, q \in Procs :
       /\ op[p] = "init" /\ pc[p] = "idle" /\ crossed[p] /\ result[p] = Returned(db)
       /\ op[q] = "close" /\ pc[q] = "idle" /\ result[q] = Returned(0)
  /\ db # 0 /\ worker = db /\ worker \notin terminated

(***************************************************************************)
(* Entry store: the id of an Entry read back.                              *)
(***************************************************************************)

\* C40 (as stated): after an upsert of an Entry with only the default locale
\* into the empty table, fetchAll returns one Entry, whose id is the id that
\* was upserted, whatever the id ends in.
C40_IdSurvivesRoundTrip ==
  (/\ entryResult.fn = "fetchAllEntries" /\ entryResult.kind = "value"
   /\ tracked # NoEntry
   /\ \A i \in DOMAIN tracked.locales : tracked.locales[i].locale = "_default")
  => /\ Len(entryResult.val) = 1
     /\ entryResult.val[1].id = tracked.id
====
